---------------------------- MODULE Spec2Model ----------------------------
(***************************************************************************)
(* A model of the rx large-file search engine: the background task        *)
(* manager, the path sandbox, the index / trace caches, the trace cache   *)
(* key, the search driver's result cap, the multi-file scheduler, the     *)
(* line index and its lookups, the rebuild decision, seekable zstd, the   *)
(* request store and the reading and writing of cache files.              *)
(* Every subsystem has its own specification (SpecTasks, SpecPath, ...);  *)
(* the variables of the other subsystems stay at their idle values.       *)
(***************************************************************************)
EXTENDS Integers, Sequences, FiniteSets, TLC

VARIABLES
    \* ---- task_manager.py: TaskManager ----
    tasks,          \* self._tasks: task_id -> TaskInfo (NoTask when absent)
    path_locks,     \* self._path_locks: path -> task_id (0 when absent)
    nextId,         \* the next fresh uuid4
    lastCreate,     \* the last create_task call: its pre-state and its return
    clock,          \* datetime.now(timezone.utc), in seconds
    justFinished,   \* the paths a task of which finished since their last create_task
    lastCleanup,    \* the last cleanup_old_tasks call: its pre-state and post-state
    \* ---- path_security.py ----
    fsLinks,        \* the file system's symbolic links: location -> target
    search_roots,   \* _search_roots: the configured, resolved roots
    reqPath,        \* the path handed to the validation
    reqSingle,      \* TRUE: validate_path_within_root, FALSE: ..._within_roots
    pathResult,     \* what the validation returned or raised
    \* ---- unified_index.py / trace_cache.py: one cache file and its source ----
    cacheKind,      \* "index" (unified_index.py) or "trace" (trace_cache.py)
    srcStat,        \* os.stat(source_path): [size, mtime], mtime in half microseconds
    cacheFile,      \* the cache file's content: NoFile, or its chunks
    writers,        \* per saving process: [pc, rec], pc = chunks written so far
    reader,         \* the looking-up process: [pc, changes], between its two loads
    lastLookup,     \* what the last lookup returned
    \* ---- trace_cache.py: the trace cache of one large file ----
    trFile,         \* the source file's lines (the characters of each)
    trSize,         \* the source file's size in bytes
    trStore,        \* the trace cache directory: the records saved in it
    trScan,         \* the first request's scan: what became of its result
    trLookup,       \* the second request's cache lookup: what it served
    \* ---- the search driver: one request over the chunks of its files ----
    srMax,          \* max_results of the request (an optional integer)
    srEvents,       \* per chunk: the JSON events its subprocess has yet to emit
    srState,        \* per chunk: "queued", "running" or "done"
    srResults,      \* per chunk: the matches collected (the context lines of each)
    srDropped,      \* per chunk: the match events left out of the results
    \* ---- scheduler.py: worker allocation and batching of one request ----
    schFiles,       \* the files at the request's paths: [exists, size] of each
    schW,           \* the worker budget (max_subprocesses, max_workers)
    schPc,          \* "start", "allocated", "batching" or "done"
    schTasks,       \* what calculate_file_workers returned
    schRemaining,   \* create_batches: the tasks not yet in a batch
    schBatches,     \* create_batches: the batches made so far
    \* ---- unified_index.py: the line index of one file ----
    ixFile,         \* the file's bytes
    ixStep,         \* step_bytes, the distance between checkpoints
    ixPc,           \* "start" or "built"
    ixIndex,        \* what build_index returned: [line_index, line_count]
    ixQuery,        \* the last lookup: its argument and what it returned
    \* ---- unified_index.py: the rebuild decision for one cached index record ----
    rbRecord,       \* the cached index record load_index returned (or none)
    rbStat,         \* os.stat(source_path): [size, mtime]
    rbStatOk,       \* FALSE: os.stat raises OSError
    rbRequest,      \* the request: [analyze, detect_anomalies]
    rbDecision,     \* who decided, and whether the index is rebuilt
    \* ---- seekable_zstd.py: one seekable zstd file ----
    zsPlain,        \* the plaintext the file is created from
    zsFrameSize,    \* frame_size_bytes
    zsT2sz,         \* check_t2sz_available()
    zsPc,           \* "start", "created" or "damaged"
    zsFile,         \* the .zst file: its frames and its seek table
    zsInfo,         \* what get_seekable_zstd_info returned
    zsRange,        \* the last decompress_range call and its result
    \* ---- request_store.py ----
    stRequests,     \* _requests: request id -> RequestInfo or NoRequest
    stLock,         \* the threads inside a with _lock block
    stThreads,      \* per thread: the call it is in and its position
    stCalls,        \* per request and counter: completed increment calls
    stSet,          \* per request: counters assigned by update_request
    stStarted,      \* number of calls started
    \* ---- cache file reads and writes ----
    ioFile,         \* what is at the cache path
    ioDir,          \* the condition of the cache directory
    ioOutcome       \* the last call: what it was given, returned and raised

taskVars == <<tasks, path_locks, nextId, lastCreate, clock, justFinished, lastCleanup>>
pathVars == <<fsLinks, search_roots, reqPath, reqSingle, pathResult>>
cacheVars == <<cacheKind, srcStat, cacheFile, writers, reader, lastLookup>>
traceVars == <<trFile, trSize, trStore, trScan, trLookup>>

searchVars == <<srMax, srEvents, srState, srResults, srDropped>>

schedVars == <<schFiles, schW, schPc, schTasks, schRemaining, schBatches>>
indexVars == <<ixFile, ixStep, ixPc, ixIndex, ixQuery>>
rebuildVars == <<rbRecord, rbStat, rbStatOk, rbRequest, rbDecision>>
zstdVars == <<zsPlain, zsFrameSize, zsT2sz, zsPc, zsFile, zsInfo, zsRange>>
storeVars == <<stRequests, stLock, stThreads, stCalls, stSet, stStarted>>
cacheIoVars == <<ioFile, ioDir, ioOutcome>>

vars == <<taskVars, pathVars, cacheVars, traceVars, searchVars, schedVars, indexVars, rebuildVars, zstdVars, storeVars, cacheIoVars>>

\* what the actions of one subsystem leave alone
notTaskVars == <<pathVars, cacheVars, traceVars, searchVars, schedVars, indexVars, rebuildVars, zstdVars, storeVars, cacheIoVars>>
notPathVars == <<taskVars, cacheVars, traceVars, searchVars, schedVars, indexVars, rebuildVars, zstdVars, storeVars, cacheIoVars>>
notCacheVars == <<taskVars, pathVars, traceVars, searchVars, schedVars, indexVars, rebuildVars, zstdVars, storeVars, cacheIoVars>>
notTraceVars == <<taskVars, pathVars, cacheVars, searchVars, schedVars, indexVars, rebuildVars, zstdVars, storeVars, cacheIoVars>>
notSearchVars == <<taskVars, pathVars, cacheVars, traceVars, schedVars, indexVars, rebuildVars, zstdVars, storeVars, cacheIoVars>>
notSchedVars == <<taskVars, pathVars, cacheVars, traceVars, searchVars, indexVars, rebuildVars, zstdVars, storeVars, cacheIoVars>>
notIndexVars == <<taskVars, pathVars, cacheVars, traceVars, searchVars, schedVars, rebuildVars, zstdVars, storeVars, cacheIoVars>>
notRebuildVars == <<taskVars, pathVars, cacheVars, traceVars, searchVars, schedVars, indexVars, zstdVars, storeVars, cacheIoVars>>
notZstdVars == <<taskVars, pathVars, cacheVars, traceVars, searchVars, schedVars, indexVars, rebuildVars, storeVars, cacheIoVars>>
notStoreVars == <<taskVars, pathVars, cacheVars, traceVars, searchVars, schedVars, indexVars, rebuildVars, zstdVars, cacheIoVars>>
notCacheIoVars == <<taskVars, pathVars, cacheVars, traceVars, searchVars, schedVars, indexVars, rebuildVars, zstdVars, storeVars>>

None == "None"

(***************************************************************************)
(* task_manager.py                                                         *)
(***************************************************************************)
MaxTasks == 2

TaskIds == 1..MaxTasks
Paths == {"/data/a.log", "/data/b.log"}
Operations == {"compress", "index"}

QUEUED == "queued"
RUNNING == "running"
COMPLETED == "completed"
FAILED == "failed"
TaskStatus == {QUEUED, RUNNING, COMPLETED, FAILED}

NoTask == [status |-> "absent"]

\* TaskInfo(task_id, path, operation, status=QUEUED, started_at=now)
NoTime == {}
TaskInfo(path, operation) ==
    [path |-> path, operation |-> operation, status |-> QUEUED,
     completed_at |-> NoTime, error |-> None, result |-> None]

IsActive(t) == t.status \in {QUEUED, RUNNING}

\* the tasks of self._tasks that are QUEUED or RUNNING on `path`
ActiveOn(path) == {i \in TaskIds : tasks[i] # NoTask /\ IsActive(tasks[i]) /\ tasks[i].path = path}

TaskInit ==
    /\ tasks = [i \in TaskIds |-> NoTask]
    /\ path_locks = [p \in Paths |-> 0]
    /\ nextId = 1
    /\ lastCreate = [called |-> FALSE]
    /\ clock = 0
    /\ justFinished = {}
    /\ lastCleanup = [called |-> FALSE]

\* create_task, lines 60-64: the path is locked by a task that is still active
PathIsLocked(path) ==
    /\ path_locks[path] # 0
    /\ tasks[path_locks[path]] # NoTask
    /\ IsActive(tasks[path_locks[path]])

\* async def create_task(self, path, operation) -> (TaskInfo, is_new)
CreateTask(path, operation) ==
    IF PathIsLocked(path)
    THEN /\ lastCreate' = [called |-> TRUE, path |-> path,
                           activeBefore |-> ActiveOn(path),
                           afterFinish |-> path \in justFinished,
                           task_id |-> path_locks[path], is_new |-> FALSE,
                           created |-> {}]
         /\ justFinished' = justFinished \ {path}
         /\ UNCHANGED <<tasks, path_locks, nextId, clock, lastCleanup, notTaskVars>>
    ELSE /\ nextId <= MaxTasks
         /\ tasks' = [tasks EXCEPT ![nextId] = TaskInfo(path, operation)]
         /\ path_locks' = [path_locks EXCEPT ![path] = nextId]
         /\ nextId' = nextId + 1
         /\ lastCreate' = [called |-> TRUE, path |-> path,
                           activeBefore |-> ActiveOn(path),
                           afterFinish |-> path \in justFinished,
                           task_id |-> nextId, is_new |-> TRUE,
                           created |-> {nextId}]
         /\ justFinished' = justFinished \ {path}
         /\ UNCHANGED <<clock, lastCleanup, notTaskVars>>

\* the fields of a task after update_task's four assignments (lines 103-110)
UpdatedTask(t, status, completed_at, error, result) ==
    [t EXCEPT !.status = IF status # None THEN status ELSE @,
              !.completed_at = IF completed_at # NoTime THEN completed_at ELSE @,
              !.error = IF error # None THEN error ELSE @,
              !.result = IF result # None THEN result ELSE @]

\* async def update_task(self, task_id, status, completed_at, error, result)
UpdateTask(task_id, status, completed_at, error, result) ==
    /\ tasks[task_id] # NoTask
    /\ tasks' = [tasks EXCEPT ![task_id] =
                    UpdatedTask(@, status, completed_at, error, result)]
    /\ path_locks' =
          IF /\ status \in {COMPLETED, FAILED}
             /\ path_locks[tasks[task_id].path] = task_id
          THEN [path_locks EXCEPT ![tasks[task_id].path] = 0]
          ELSE path_locks
    /\ justFinished' =
          IF IsActive(tasks[task_id]) /\ status \in {COMPLETED, FAILED}
          THEN justFinished \cup {tasks[task_id].path}
          ELSE justFinished
    /\ UNCHANGED <<nextId, lastCreate, clock, lastCleanup, notTaskVars>>

\* update_task on an unknown task id returns at line 101
UpdateUnknownTask(task_id) ==
    /\ tasks[task_id] = NoTask
    /\ UNCHANGED vars

\* the (completed_at, error, result) arguments update_task is called with:
\* none of them, those of a completion, those of a failure
UpdateArgs == {<<NoTime, None, None>>, <<{clock}, None, "res">>, <<{clock}, "err", None>>}

TaskNext ==
    \/ \E p \in Paths, op \in Operations : CreateTask(p, op)
    \/ \E i \in TaskIds, s \in TaskStatus \cup {None}, a \in UpdateArgs :
          UpdateTask(i, s, a[1], a[2], a[3])
    \/ \E i \in TaskIds : UpdateUnknownTask(i)

\* C1: at no moment are two distinct tasks of the same path both QUEUED or
\* RUNNING (the statement of the claim; update_task breaks it by moving a
\* finished task back to RUNNING after the path was given to a new task).
C1_OneActiveTaskPerPath ==
    \A p \in Paths : Cardinality(ActiveOn(p)) <= 1

\* C2: create_task on a path that has a QUEUED or RUNNING task returns that
\* task with is_new = False and creates nothing (the statement of the claim).
C2_CreateOnBusyPathReturnsExisting ==
    (lastCreate.called /\ lastCreate.activeBefore # {}) =>
        /\ lastCreate.is_new = FALSE
        /\ lastCreate.task_id \in lastCreate.activeBefore
        /\ lastCreate.created = {}

\* C22: whenever a task's status is COMPLETED, its completed_at and result
\* are set and its error is unset; whenever its status is QUEUED or RUNNING,
\* its completed_at and result are unset.
C22_FieldsMatchStatus ==
    \A i \in TaskIds :
        tasks[i] # NoTask =>
            /\ tasks[i].status = COMPLETED =>
                   /\ tasks[i].completed_at # NoTime
                   /\ tasks[i].result # None
                   /\ tasks[i].error = None
            /\ IsActive(tasks[i]) =>
                   /\ tasks[i].completed_at = NoTime
                   /\ tasks[i].result = None

\* C26: the create_task that follows the finishing (COMPLETED or FAILED,
\* through update_task) of a task of its path creates a new task.
C26_CreateAfterFinishIsNew ==
    (lastCreate.called /\ lastCreate.afterFinish) => lastCreate.is_new

\* C28: a task that is COMPLETED or FAILED is never QUEUED or RUNNING after
\* a further step.
C28_StatusOnlyMovesForward ==
    [][\A i \in TaskIds :
          (tasks[i] # NoTask /\ tasks[i].status \in {COMPLETED, FAILED})
              => tasks'[i].status \notin {QUEUED, RUNNING}]_vars

\* ---- cleanup_old_tasks ----
MaxClock == 2
MaxAge == 1

\* the tasks update_task calls leave in self._tasks at time `now`: of any
\* status, with or without a completed_at
TasksAt(now) ==
    [path : {"/data/a.log"}, operation : {"index"}, status : TaskStatus,
     completed_at : {NoTime} \cup {{t} : t \in 0..now},
     error : {None}, result : {None}]

CleanupInit ==
    /\ clock \in 0..MaxClock
    /\ tasks \in [TaskIds -> TasksAt(clock) \cup {NoTask}]
    /\ path_locks = [p \in Paths |-> 0]
    /\ nextId = MaxTasks + 1
    /\ lastCreate = [called |-> FALSE]
    /\ justFinished = {}
    /\ lastCleanup = [called |-> FALSE]

\* cleanup_old_tasks, lines 143-147: the test a task is removed by
IsOldOfAnyStatus(task, now, max_age_seconds) ==
    \E t \in task.completed_at : now - t > max_age_seconds
IsOldFinished(task, now, max_age_seconds) ==
    /\ task.status \in {COMPLETED, FAILED}
    /\ \E t \in task.completed_at : now - t > max_age_seconds

\* async def cleanup_old_tasks(self, max_age_seconds) -> int
CleanupOldTasks(max_age_seconds) ==
    LET to_remove == {i \in TaskIds : tasks[i] # NoTask
                                      /\ IsOldFinished(tasks[i], clock, max_age_seconds)}
        kept == [i \in TaskIds |-> IF i \in to_remove THEN NoTask ELSE tasks[i]]
    IN  /\ tasks' = kept
        /\ lastCleanup' = [called |-> TRUE, now |-> clock, max_age |-> max_age_seconds,
                           before |-> tasks, after |-> kept,
                           returned |-> Cardinality(to_remove)]
        /\ UNCHANGED <<path_locks, nextId, lastCreate, clock, justFinished, notTaskVars>>

\* time passes between two calls
Tick ==
    /\ clock < MaxClock
    /\ clock' = clock + 1
    /\ UNCHANGED <<tasks, path_locks, nextId, lastCreate, justFinished, lastCleanup,
                   notTaskVars>>

CleanupNext ==
    \/ \E max_age_seconds \in 0..MaxAge : CleanupOldTasks(max_age_seconds)
    \/ Tick

\* a task that cleanup_old_tasks(max_age) is to remove: COMPLETED or FAILED,
\* and finished (completed_at) more than max_age seconds before now
DueForCleanup(task, now, max_age) ==
    /\ task # NoTask
    /\ task.status \in {COMPLETED, FAILED}
    /\ task.completed_at # NoTime
    /\ \A t \in task.completed_at : now - t > max_age

\* C23: cleanup_old_tasks(max_age) removes exactly the tasks that are
\* COMPLETED or FAILED and finished more than max_age seconds ago: each of
\* them is gone afterwards, every other task is as it was.
C23_CleanupRemovesExactlyOldFinished ==
    lastCleanup.called =>
        \A i \in TaskIds :
            IF DueForCleanup(lastCleanup.before[i], lastCleanup.now, lastCleanup.max_age)
            THEN lastCleanup.after[i] = NoTask
            ELSE lastCleanup.after[i] = lastCleanup.before[i]

\* one old finished task removed beside a RUNNING task with an old
\* completed_at that is kept
C23_Witness ==
    /\ lastCleanup.called
    /\ lastCleanup.returned = 1
    /\ \E i \in TaskIds :
           /\ lastCleanup.before[i] # NoTask
           /\ lastCleanup.after[i] = NoTask
    /\ \E i \in TaskIds :
           /\ lastCleanup.after[i] # NoTask
           /\ lastCleanup.after[i].status = RUNNING
           /\ IsOldOfAnyStatus(lastCleanup.after[i], lastCleanup.now, lastCleanup.max_age)

(***************************************************************************)
(* path_security.py                                                        *)
(***************************************************************************)
MaxPathLen == 3
MaxLinkDepth == 3

\* A path is [abs, parts]; a resolved location is the sequence of its parts
\* below "/".  The names: "a" and "b" are directories of "/", "f" is a file
\* name (existing or not), "l" is a name that may be a symbolic link.
Components == {"a", "b", "f", "l", ".."}

RECURSIVE SeqsUpTo(_, _)
SeqsUpTo(S, n) ==
    IF n = 0 THEN {<<>>}
    ELSE LET shorter == SeqsUpTo(S, n - 1)
         IN  shorter \cup {Append(q, x) : q \in {r \in shorter : Len(r) = n - 1}, x \in S}

InputPaths == [abs : BOOLEAN, parts : SeqsUpTo(Components, MaxPathLen)]

NoLink == [abs |-> FALSE, parts |-> <<"nolink">>]

\* where a symbolic link may be, and what it may point to (no cycles)
LinkLocations == {<<"a", "l">>, <<"b", "l">>}
LinkTargets(loc) ==
    IF loc = <<"a", "l">>
    THEN {NoLink,
          [abs |-> TRUE, parts |-> <<"b", "f">>],
          [abs |-> TRUE, parts |-> <<"a", "f">>],
          [abs |-> FALSE, parts |-> <<"..", "b">>],
          [abs |-> FALSE, parts |-> <<"a">>]}
    ELSE {NoLink, [abs |-> TRUE, parts |-> <<"a">>]}

RootChoices == {<< <<"a">> >>, << <<"a">>, <<"b", "a">> >>, << <<"b">>, <<"a", "a">> >>}

IsLink(links, loc) == loc \in LinkLocations /\ links[loc] # NoLink

Front(q) == SubSeq(q, 1, Len(q) - 1)

\* os.path.realpath (Path.resolve, strict=False): walk the components from the
\* resolved location `at`; ".." drops the last resolved component; a symbolic
\* link is replaced by the resolution of its target; any other name, existing
\* or not, is appended.
RECURSIVE RealPath(_, _, _, _)
RealPath(at, rest, links, fuel) ==
    IF rest = <<>> THEN at
    ELSE LET name == Head(rest)
             more == Tail(rest)
             here == Append(at, name)
         IN  IF name = ".."
             THEN RealPath(IF at = <<>> THEN <<>> ELSE Front(at), more, links, fuel)
             ELSE IF IsLink(links, here) /\ fuel > 0
             THEN RealPath(RealPath(IF links[here].abs THEN <<>> ELSE at,
                                    links[here].parts, links, fuel - 1),
                           more, links, fuel)
             ELSE RealPath(here, more, links, fuel)

\* Path.resolve() of an absolute path
Resolve(parts, links) == RealPath(<<>>, parts, links, MaxLinkDepth)

\* resolving without following links (os.path.normpath): what a validation
\* that forgot the symbolic links would compare
LexicalResolve(parts, links) == RealPath(<<>>, parts, [loc \in LinkLocations |-> NoLink], 0)

\* the candidate normalised by its text alone, symbolic links not followed
ResolveCandidateLexical(root, target, links) ==
    LexicalResolve(IF target.abs THEN target.parts ELSE root \o target.parts, links)

\* lines 215-221: check_path = root / target for a relative target, resolved
ResolveCandidate(root, target, links) ==
    Resolve(IF target.abs THEN target.parts ELSE root \o target.parts, links)

\* PurePath.relative_to(root) succeeds: root's parts are a prefix of p's
IsRelativeTo(p, root) ==
    Len(root) <= Len(p) /\ SubSeq(p, 1, Len(root)) = root

AccessDenied == [ok |-> FALSE, path |-> <<>>]

\* the loop over the roots (lines 213-238): the first root the resolved
\* candidate is relative to decides; PermissionError when there is none
RECURSIVE ValidateFrom(_, _, _, _)
ValidateFrom(i, roots, target, links) ==
    IF i > Len(roots) THEN AccessDenied
    ELSE LET resolved == ResolveCandidate(roots[i], target, links)
         IN  IF IsRelativeTo(resolved, roots[i])
             THEN [ok |-> TRUE, path |-> resolved]
             ELSE ValidateFrom(i + 1, roots, target, links)

\* validate_path_within_roots(path, search_roots=None)
ValidatePathWithinRoots(target, roots, links) ==
    ValidateFrom(1, roots, target, links)

\* validate_path_within_root(path, search_root=None): resolves every root again
ValidatePathWithinRoot(target, roots, links) ==
    ValidateFrom(1, [i \in 1..Len(roots) |-> Resolve(roots[i], links)], target, links)

PathIdle ==
    /\ fsLinks = [loc \in LinkLocations |-> NoLink]
    /\ search_roots = << <<"a">> >>
    /\ reqPath = [abs |-> TRUE, parts |-> <<>>]
    /\ reqSingle = FALSE
    /\ pathResult = [done |-> FALSE]

PathInit ==
    /\ fsLinks \in {f \in [LinkLocations -> UNION {LinkTargets(loc) : loc \in LinkLocations}] :
                        \A loc \in LinkLocations : f[loc] \in LinkTargets(loc)}
    /\ search_roots \in RootChoices
    /\ reqPath \in InputPaths
    /\ reqSingle \in BOOLEAN
    /\ pathResult = [done |-> FALSE]

ValidateRoots ==
    /\ ~pathResult.done
    /\ ~reqSingle
    /\ LET r == ValidatePathWithinRoots(reqPath, search_roots, fsLinks)
       IN  pathResult' = [done |-> TRUE, ok |-> r.ok, path |-> r.path]
    /\ UNCHANGED <<fsLinks, search_roots, reqPath, reqSingle, notPathVars>>

ValidateRoot ==
    /\ ~pathResult.done
    /\ reqSingle
    /\ LET r == ValidatePathWithinRoot(reqPath, search_roots, fsLinks)
       IN  pathResult' = [done |-> TRUE, ok |-> r.ok, path |-> r.path]
    /\ UNCHANGED <<fsLinks, search_roots, reqPath, reqSingle, notPathVars>>

PathNext == ValidateRoots \/ ValidateRoot

\* the location a path really denotes lies in (or is) one of the roots
WithinSomeRoot(parts) ==
    \E i \in 1..Len(search_roots) : IsRelativeTo(Resolve(parts, fsLinks), search_roots[i])

\* C3: a validation that returns, returns a path whose real location is equal
\* to or below one of the configured roots; otherwise it is an access-denied
\* failure.  No returned path lies outside every root.
C3_ValidatedPathWithinRoots ==
    pathResult.done =>
        \/ pathResult.ok /\ WithinSomeRoot(pathResult.path)
        \/ ~pathResult.ok /\ pathResult.path = <<>>

\* a path through a symbolic link and a ".." was accepted
C3_Witness ==
    /\ pathResult.done /\ pathResult.ok
    /\ IsLink(fsLinks, <<"a", "l">>)
    /\ \E i \in 1..Len(reqPath.parts) : reqPath.parts[i] = "l"
    /\ \E i \in 1..Len(reqPath.parts) : reqPath.parts[i] = ".."

(***************************************************************************)
(* unified_index.py and trace_cache.py: validity, load and save of a       *)
(* cache file                                                              *)
(***************************************************************************)
UNIFIED_INDEX_VERSION == 2
TRACE_CACHE_VERSION == 1

MaxSize == 1        \* source sizes 0..MaxSize
MaxMtime == 3       \* source mtimes 0..MaxMtime (half microseconds)
MaxChanges == 2     \* how often the source file is rewritten
NumWriters == 2     \* concurrent savers of the same cache file
NumChunks == 2      \* write() calls one json.dump of a record needs

WriterIds == 1..NumWriters
CurrentVersion(kind) ==
    IF kind = "index" THEN UNIFIED_INDEX_VERSION ELSE TRACE_CACHE_VERSION

\* datetime.fromtimestamp(st_mtime): the time rounded to the microsecond, half
\* to even (mtime counts half microseconds); the local time zone's fall-back
\* hour adds further collisions, which are left out here
FromTimestamp(mtime) ==
    LET q == mtime \div 2
    IN  IF mtime % 2 = 0 THEN q ELSE IF q % 2 = 0 THEN q ELSE q + 1

\* datetime.isoformat(): the microsecond count printed; one string per value
IsoFormat(micros) == micros

\* the three fields every record starts with, from os.stat at build time
\* (build_cache_from_matches lines 270-298); mtime is the stat's own mtime,
\* kept beside the record to state the claims, not stored in the file
BuildRecord(kind, stat, version) ==
    [version |-> version,
     source_size_bytes |-> stat.size,
     source_modified_at |-> IsoFormat(FromTimestamp(stat.mtime)),
     mtime |-> stat.mtime]

\* a cache file: whether it exists, and the chunks of text it holds
NoFile == [exists |-> FALSE, chunks |-> <<>>]
EmptyFile == [exists |-> TRUE, chunks |-> <<>>]
NoRecord == [version |-> 0, source_size_bytes |-> 0, source_modified_at |-> 0, mtime |-> 0]
Hole == [w |-> -1, k |-> 0, rec |-> NoRecord]

\* pwrite of chunk c at position k of the file (a hole is left when the file
\* was truncated below k - 1 in between)
PutChunk(file, k, c) ==
    [exists |-> TRUE,
     chunks |-> [i \in 1..(IF Len(file.chunks) > k THEN Len(file.chunks) ELSE k) |->
                    IF i = k THEN c
                    ELSE IF i <= Len(file.chunks) THEN file.chunks[i] ELSE Hole]]

\* json.load succeeds: the text is complete, chunk k of some record at k
ParsesAsJson(file) ==
    /\ file.exists
    /\ Len(file.chunks) = NumChunks
    /\ \A i \in 1..NumChunks : file.chunks[i].k = i

\* the parsed document: the leading fields come with the first chunk, the
\* checkpoints or matches with the rest
ParsedData(file) ==
    [ok |-> TRUE, header |-> file.chunks[1].rec,
     from |-> {file.chunks[i].w : i \in 1..NumChunks}]

\* None
NoData == [ok |-> FALSE, header |-> NoRecord, from |-> {}]

\* is_index_valid (lines 286-289) and is_trace_cache_valid (lines 125-134)
IsValidFor(stat, header) ==
    /\ header.source_modified_at = IsoFormat(FromTimestamp(stat.mtime))
    /\ header.source_size_bytes = stat.size

\* load_trace_cache: the parsed document of the current version, or None
LoadTraceCache(file) ==
    IF ParsesAsJson(file) /\ ParsedData(file).header.version = TRACE_CACHE_VERSION
    THEN ParsedData(file) ELSE NoData

\* is_trace_cache_valid (the patterns hash is that of the file's own path)
IsTraceCacheValid(file, stat) ==
    /\ file.exists
    /\ LoadTraceCache(file).ok
    /\ IsValidFor(stat, LoadTraceCache(file).header)

\* load_index: the index, or None
LoadIndex(file, stat) ==
    IF /\ ParsesAsJson(file)
       /\ ParsedData(file).header.version = UNIFIED_INDEX_VERSION
       /\ IsValidFor(stat, ParsedData(file).header)
    THEN ParsedData(file) ELSE NoData

Miss == [done |-> TRUE, hit |-> FALSE]
\* a hit, with what the claims need of it: the writers its chunks came from,
\* and whether the record's build-time (size, mtime) and version are the
\* source's and the format's when the lookup read os.stat
Hit(data, stat, kind) ==
    [done |-> TRUE, hit |-> TRUE, from |-> data.from,
     sameIdentity |-> (data.header.source_size_bytes = stat.size
                       /\ data.header.mtime = stat.mtime),
     sameVersion |-> (data.header.version = CurrentVersion(kind))]

\* the cache file an earlier run (writer 0) left behind, if any, written by
\* this release or by the one before it
LegacyFiles(kind) ==
    {NoFile} \cup
    {[exists |-> TRUE,
      chunks |-> [i \in 1..NumChunks |->
                    [w |-> 0, k |-> i,
                     rec |-> BuildRecord(kind, [size |-> 0, mtime |-> 0], v)]]] :
       v \in {CurrentVersion(kind) - 1, CurrentVersion(kind)}}

IdleWriter == [pc |-> -1, rec |-> NoRecord]
IdleReader == [pc |-> "idle", changes |-> 0]
NoLookup == [done |-> FALSE, hit |-> FALSE, stat |-> [size |-> 0, mtime |-> 0]]

CacheIdle ==
    /\ cacheKind = "index"
    /\ srcStat = [size |-> 0, mtime |-> 0]
    /\ cacheFile = NoFile
    /\ writers = [w \in WriterIds |-> IdleWriter]
    /\ reader = IdleReader
    /\ lastLookup = NoLookup

CacheInit ==
    /\ cacheKind \in {"index", "trace"}
    /\ srcStat = [size |-> 0, mtime |-> 0]
    /\ cacheFile \in LegacyFiles(cacheKind)
    /\ writers = [w \in WriterIds |-> IdleWriter]
    /\ reader = IdleReader
    /\ lastLookup = NoLookup

\* the source file is rewritten by its owner: a new size or a new mtime
ModifySource(size, mtime) ==
    /\ reader.changes < MaxChanges
    /\ <<size, mtime>> # <<srcStat.size, srcStat.mtime>>
    /\ mtime >= srcStat.mtime
    /\ srcStat' = [size |-> size, mtime |-> mtime]
    /\ reader' = [reader EXCEPT !.changes = @ + 1]
    /\ UNCHANGED <<cacheKind, cacheFile, writers, lastLookup, notCacheVars>>

\* save_index / save_trace_cache up to open(cache_path, 'w'): the record is
\* built from the source's stat and the cache file is truncated in place
OpenForWrite(w) ==
    /\ writers[w].pc = -1
    /\ writers' = [writers EXCEPT ![w] =
            [pc |-> 0, rec |-> BuildRecord(cacheKind, srcStat, CurrentVersion(cacheKind))]]
    /\ cacheFile' = EmptyFile
    /\ UNCHANGED <<cacheKind, srcStat, reader, lastLookup, notCacheVars>>

\* json.dump(..., f): the next buffer of the text reaches the file
WriteChunk(w) ==
    /\ writers[w].pc \in 0..(NumChunks - 1)
    /\ cacheFile' = PutChunk(cacheFile, writers[w].pc + 1,
                             [w |-> w, k |-> writers[w].pc + 1, rec |-> writers[w].rec])
    /\ writers' = [writers EXCEPT ![w].pc = @ + 1]
    /\ UNCHANGED <<cacheKind, srcStat, reader, lastLookup, notCacheVars>>

\* the with block ends: the file is closed, save returns True
CloseFile(w) ==
    /\ writers[w].pc = NumChunks
    /\ writers' = [writers EXCEPT ![w] = IdleWriter]
    /\ UNCHANGED <<cacheKind, srcStat, cacheFile, reader, lastLookup, notCacheVars>>

\* load_index(source_path)
LookupIndex ==
    /\ cacheKind = "index"
    /\ lastLookup' = IF ~LoadIndex(cacheFile, srcStat).ok THEN Miss
                      ELSE Hit(LoadIndex(cacheFile, srcStat), srcStat, cacheKind)
    /\ UNCHANGED <<cacheKind, srcStat, cacheFile, writers, reader, notCacheVars>>

\* get_cached_matches, line 237: is_trace_cache_valid
LookupTraceValidate ==
    /\ cacheKind = "trace"
    /\ reader.pc = "idle"
    /\ IF IsTraceCacheValid(cacheFile, srcStat)
       THEN /\ reader' = [reader EXCEPT !.pc = "validated"]
            /\ lastLookup' = [done |-> FALSE, hit |-> FALSE, stat |-> srcStat]
       ELSE /\ lastLookup' = Miss
            /\ UNCHANGED reader
    /\ UNCHANGED <<cacheKind, srcStat, cacheFile, writers, notCacheVars>>

\* get_cached_matches, lines 241-250: the file is loaded a second time and
\* its matches are returned
LookupTraceLoad ==
    /\ cacheKind = "trace"
    /\ reader.pc = "validated"
    /\ lastLookup' = IF ~LoadTraceCache(cacheFile).ok THEN Miss
                      ELSE Hit(LoadTraceCache(cacheFile), lastLookup.stat, cacheKind)
    /\ reader' = [reader EXCEPT !.pc = "idle"]
    /\ UNCHANGED <<cacheKind, srcStat, cacheFile, writers, notCacheVars>>

CacheNext ==
    \/ \E size \in 0..MaxSize, mtime \in 0..MaxMtime : ModifySource(size, mtime)
    \/ \E w \in WriterIds : OpenForWrite(w)
    \/ \E w \in WriterIds : WriteChunk(w)
    \/ \E w \in WriterIds : CloseFile(w)
    \/ LookupIndex
    \/ LookupTraceValidate
    \/ LookupTraceLoad

\* C4: a lookup serves a record only while the (size, mtime) it was built
\* from is the source's current (size, mtime) and its version is the current
\* one: once the source's size or mtime has changed, a lookup is a miss (the
\* statement of the claim).
C4_HitOnlyForUnchangedSource ==
    (lastLookup.done /\ lastLookup.hit) =>
        (lastLookup.sameIdentity /\ lastLookup.sameVersion)

\* C5: a reader racing with the writers of a cache file gets a miss or the
\* complete record of exactly one writer (the statement of the claim).
C5_ReaderSeesOneWritersRecord ==
    (lastLookup.done /\ lastLookup.hit) => Cardinality(lastLookup.from) = 1

(***************************************************************************)
(* trace_cache.py: the cache key, the cached matches, their reconstruction *)
(* and the decision to cache                                               *)
(***************************************************************************)
DEFAULT_LARGE_FILE_MB == 50

MaxLines == 2       \* lines of the source file
MaxPatterns == 2    \* patterns of one request

\* Patterns are numbered in the order their texts sort: 1 is "a", 2 is "b".
PatternIds == {1, 2}
PatternChar(p) == IF p = 1 THEN "a" ELSE "b"
UpperChar(p) == IF p = 1 THEN "A" ELSE "B"

\* a line is the set of characters it holds
LineChoices == {{"a"}, {"A"}, {"b"}, {"a", "b"}}

MATCHING_FLAGS == {"-i", "-w", "-x", "-F", "-P", "--case-sensitive", "--ignore-case"}
\* the flags a request is made with: one that affects matching, one that does not
FlagChoices == {"-i", "-n"}

PatternLists == SeqsUpTo(PatternIds, MaxPatterns) \ {<<>>}
Requests == [patterns : PatternLists, rg_flags : SUBSET FlagChoices]

\* get_large_file_threshold_bytes() with RX_LARGE_FILE_MB unset
LargeFileThreshold == DEFAULT_LARGE_FILE_MB * 1024 * 1024

\* sorted(patterns)
RECURSIVE Insert(_, _)
Insert(x, q) ==
    IF q = <<>> THEN <<x>>
    ELSE IF x <= Head(q) THEN <<x>> \o q ELSE <<Head(q)>> \o Insert(x, Tail(q))
RECURSIVE Sorted(_)
Sorted(q) == IF q = <<>> THEN <<>> ELSE Insert(Head(q), Sorted(Tail(q)))

\* compute_patterns_hash: sha256 of the JSON of the sorted patterns and the
\* sorted matching flags; two inputs hash alike when these two are alike
ComputePatternsHash(patterns, rg_flags) ==
    <<Sorted(patterns), rg_flags \cap MATCHING_FLAGS>>

\* the regex engine: pattern p matches the line, under the request's flags
PatternMatches(p, line, rg_flags) ==
    \/ PatternChar(p) \in line
    \/ "-i" \in rg_flags /\ UpperChar(p) \in line

\* the texts the pattern matches in the line
Submatches(p, line, rg_flags) ==
    {c \in line : c = PatternChar(p) \/ ("-i" \in rg_flags /\ c = UpperChar(p))}

\* the byte offset line n of the file starts at (each line ends with a newline)
RECURSIVE LineOffset(_, _)
LineOffset(file, n) ==
    IF n <= 1 THEN 0 ELSE LineOffset(file, n - 1) + Cardinality(file[n - 1]) + 1

\* a scan of the file for the request: one match per line and pattern of the
\* request that matches it, lines in order, the pattern named "p<i>" after
\* its place i in the request's own list
RECURSIVE ScanFrom(_, _, _, _)
ScanFrom(file, req, n, i) ==
    IF n > Len(file) THEN <<>>
    ELSE IF i > Len(req.patterns) THEN ScanFrom(file, req, n + 1, 1)
    ELSE (IF PatternMatches(req.patterns[i], file[n], req.rg_flags)
          THEN <<[pattern |-> i, offset |-> LineOffset(file, n),
                  relative_line_number |-> n, line_text |-> file[n],
                  submatches |-> Submatches(req.patterns[i], file[n], req.rg_flags)]>>
          ELSE <<>>) \o ScanFrom(file, req, n, i + 1)

FreshScan(file, req) == ScanFrom(file, req, 1, 1)

\* build_cache_from_matches: "p<i>" goes back to the index i - 1
BuildCacheFromMatches(req, matches) ==
    [patterns_hash |-> ComputePatternsHash(req.patterns, req.rg_flags),
     patterns |-> req.patterns,
     rg_flags |-> req.rg_flags \cap MATCHING_FLAGS,
     matches |-> [k \in 1..Len(matches) |->
                    [pattern_index |-> matches[k].pattern - 1,
                     offset |-> matches[k].offset,
                     line_number |-> matches[k].relative_line_number]]]

\* reconstruct_match_data: the pattern is the reader's patterns[pattern_index],
\* the line is read again and the pattern applied to it
ReconstructMatchData(file, cached, req) ==
    LET pattern == IF cached.pattern_index < Len(req.patterns)
                   THEN req.patterns[cached.pattern_index + 1] ELSE req.patterns[1]
    IN  [pattern |-> cached.pattern_index + 1,
         offset |-> cached.offset,
         relative_line_number |-> cached.line_number,
         line_text |-> file[cached.line_number],
         submatches |-> Submatches(pattern, file[cached.line_number], req.rg_flags)]

\* An optional integer is the set of its values: None is the empty set.
NoLimit == {}

\* should_cache_file(file_size, max_results, scan_completed) with `<=`
ShouldCacheFileAboveThreshold(file_size, max_results, scan_completed) ==
    /\ ~(file_size <= LargeFileThreshold)
    /\ max_results = NoLimit
    /\ scan_completed

\* should_cache_file(file_size, max_results, scan_completed)
ShouldCacheFile(file_size, max_results, scan_completed) ==
    /\ ~(file_size < LargeFileThreshold)
    /\ max_results = NoLimit
    /\ scan_completed

\* get_trace_cache_path: one file per patterns hash (and source path)
RecordsAt(store, hash) == {r \in store : r.patterns_hash = hash}

NoScan == [done |-> FALSE]
NoTraceLookup == [done |-> FALSE]

TraceIdle ==
    /\ trFile = <<>>
    /\ trSize = 0
    /\ trStore = {}
    /\ trScan = NoScan
    /\ trLookup = NoTraceLookup

TraceInit ==
    /\ trFile \in SeqsUpTo(LineChoices, MaxLines)
    /\ trSize \in {LargeFileThreshold - 1, LargeFileThreshold, LargeFileThreshold + 1}
    /\ trStore = {}
    /\ trScan = NoScan
    /\ trLookup = NoTraceLookup

\* A first request scans the file, a later one looks the cache up.
\* The end of the scan of the file (search driver, step 7): the record is built
\* and saved when should_cache_file says so; save_trace_cache returns False
\* when the write fails
ScanAndCache(req, max_results, scan_completed, io_ok) ==
    LET cache == ShouldCacheFile(trSize, max_results, scan_completed)
        rec == BuildCacheFromMatches(req, FreshScan(trFile, req))
    IN  /\ ~trScan.done
        /\ trStore' = IF cache /\ io_ok
                       THEN (trStore \ RecordsAt(trStore, rec.patterns_hash)) \cup {rec}
                       ELSE trStore
        /\ trScan' = [done |-> TRUE, file_size |-> trSize, max_results |-> max_results,
                       scan_completed |-> scan_completed, io_ok |-> io_ok,
                       save_called |-> cache,
                       written |-> (cache /\ io_ok)]
        /\ UNCHANGED <<trFile, trSize, trLookup, notTraceVars>>

\* get_cached_matches for a later request without max_results, then
\* reconstruct_match_data for every cached match
LookupTrace(req) ==
    LET found == RecordsAt(trStore, ComputePatternsHash(req.patterns, req.rg_flags))
    IN  /\ trScan.done /\ ~trLookup.done
        /\ trLookup' =
              IF found = {} THEN [done |-> TRUE, hit |-> FALSE, served |-> <<>>, fresh |-> <<>>,
                                  swapped |-> FALSE]
              ELSE LET rec == CHOOSE r \in found : TRUE
                   IN  [done |-> TRUE, hit |-> TRUE,
                        served |-> [k \in 1..Len(rec.matches) |->
                                      ReconstructMatchData(trFile, rec.matches[k], req)],
                        fresh |-> FreshScan(trFile, req),
                        swapped |-> (rec.patterns # req.patterns)]
        /\ UNCHANGED <<trFile, trSize, trStore, trScan, notTraceVars>>

TraceNext ==
    \/ \E req \in Requests, max_results \in {NoLimit, {1}}, scan_completed \in BOOLEAN,
          io_ok \in BOOLEAN : ScanAndCache(req, max_results, scan_completed, io_ok)
    \/ \E req \in Requests : LookupTrace(req)

\* C6: the matches served from a trace cache hit are those a fresh scan with
\* the request's own patterns and flags returns, pattern by pattern and
\* offset by offset (the statement of the claim).
C6_CacheHitEqualsFreshScan ==
    (trLookup.done /\ trLookup.hit) => trLookup.served = trLookup.fresh

\* C7: the result of a scan is written to the trace cache only if the file
\* is at least the large-file threshold, max_results is unset and the scan
\* completed; and such a scan does call save_trace_cache, which writes the
\* record unless the write itself fails.
C7_CacheWrittenIffEligible ==
    trScan.done =>
        LET eligible == /\ trScan.file_size >= LargeFileThreshold
                        /\ trScan.max_results = NoLimit
                        /\ trScan.scan_completed
        IN  /\ trScan.save_called = eligible
            /\ trScan.written = (eligible /\ trScan.io_ok)
            /\ (trStore # {} => trSize >= LargeFileThreshold)

\* a complete, uncapped scan of a file of exactly the threshold size was cached
C7_Witness ==
    /\ trScan.done /\ trScan.written
    /\ trScan.file_size = LargeFileThreshold
    /\ trStore # {}

(***************************************************************************)
(* The search driver (spec.md 4.6, steps 2, 3 and 6): the chunks of the    *)
(* request's files are dispatched to regex-engine subprocesses, at most    *)
(* max_subprocesses at a time; the driver parses the events of the running *)
(* chunks as they arrive and enforces max_results over all of them.        *)
(***************************************************************************)
MaxSearchChunks == 3    \* chunks of the request, over all its files
MaxEvents == 1          \* events one subprocess emits
MaxCap == 2             \* the largest max_results requested
MaxLive == 2            \* max_subprocesses: subprocesses alive at a time

SearchChunks == 1..MaxSearchChunks
\* chunk 1 is all of file 1; the later files have two chunks each
FileOfChunk(c) == (c + 2) \div 2
EventKinds == {"match", "context"}

RECURSIVE SumOver(_, _)
SumOver(f, S) ==
    IF S = {} THEN 0
    ELSE LET c == CHOOSE x \in S : TRUE IN f[c] + SumOver(f, S \ {c})

\* the matches collected so far, over all files and patterns
TotalMatches(results) ==
    SumOver([c \in SearchChunks |-> Len(results[c])], SearchChunks)

\* the matches collected so far from the file of chunk c only
FileMatches(results, c) ==
    SumOver([d \in SearchChunks |-> Len(results[d])],
            {d \in SearchChunks : FileOfChunk(d) = FileOfChunk(c)})

\* the cap counted per file
CapReachedPerFile(max_results, results, c) ==
    \E n \in max_results : FileMatches(results, c) >= n

\* max_results is enforced globally across all files and patterns
CapReached(max_results, results, c) ==
    \E n \in max_results : TotalMatches(results) >= n

Live == {c \in SearchChunks : srState[c] = "running"}

SearchIdle ==
    /\ srMax = NoLimit
    /\ srEvents = <<>>
    /\ srState = <<>>
    /\ srResults = <<>>
    /\ srDropped = <<>>

SearchInit ==
    /\ srMax \in {NoLimit} \cup {{n} : n \in 1..MaxCap}
    /\ srEvents \in [SearchChunks -> SeqsUpTo(EventKinds, MaxEvents)]
    /\ srState = [c \in SearchChunks |-> "queued"]
    /\ srResults = [c \in SearchChunks |-> <<>>]
    /\ srDropped = [c \in SearchChunks |-> 0]

\* a queued chunk gets a subprocess: the semaphore has a free slot and the
\* cap has not been reached
Dispatch(c) ==
    /\ srState[c] = "queued"
    /\ Cardinality(Live) < MaxLive
    /\ ~CapReached(srMax, srResults, c)
    /\ srState' = [srState EXCEPT ![c] = "running"]
    /\ UNCHANGED <<srMax, srEvents, srResults, srDropped, notSearchVars>>

\* no chunk is dispatched once the cap is reached
SkipChunk(c) ==
    /\ srState[c] = "queued"
    /\ CapReached(srMax, srResults, c)
    /\ srState' = [srState EXCEPT ![c] = "done"]
    /\ UNCHANGED <<srMax, srEvents, srResults, srDropped, notSearchVars>>

\* the next event of a running chunk is parsed: a match is collected unless
\* the cap is reached; a context line goes to the nearest preceding match of
\* its chunk, when that match was collected
ParseEvent(c) ==
    /\ srState[c] = "running"
    /\ srEvents[c] # <<>>
    /\ srEvents' = [srEvents EXCEPT ![c] = Tail(@)]
    /\ LET ev == Head(srEvents[c])
            got == srResults[c]
        IN  srResults' =
              IF ev = "match"
              THEN IF CapReached(srMax, srResults, c) THEN srResults
                   ELSE [srResults EXCEPT ![c] = Append(got, 0)]
              ELSE IF got = <<>> \/ CapReached(srMax, srResults, c) THEN srResults
                   ELSE [srResults EXCEPT ![c][Len(got)] = @ + 1]
    /\ srDropped' =
          IF Head(srEvents[c]) = "match" /\ CapReached(srMax, srResults, c)
          THEN [srDropped EXCEPT ![c] = @ + 1] ELSE srDropped
    /\ UNCHANGED <<srMax, srState, notSearchVars>>

\* the subprocess of a running chunk ends
FinishChunk(c) ==
    /\ srState[c] = "running"
    /\ srEvents[c] = <<>>
    /\ srState' = [srState EXCEPT ![c] = "done"]
    /\ UNCHANGED <<srMax, srEvents, srResults, srDropped, notSearchVars>>

SearchNext ==
    \E c \in SearchChunks :
        \/ Dispatch(c)
        \/ SkipChunk(c)
        \/ ParseEvent(c)
        \/ FinishChunk(c)

\* C8: with max_results = N, the matches of a search, counted over all files
\* and all patterns of the request, never exceed N.
C8_ResultsNeverExceedCap ==
    \A n \in srMax : TotalMatches(srResults) <= n

\* the cap was reached with matches of two files, and a further match that a
\* running subprocess still had to emit was left out
C8_Witness ==
    /\ \E n \in srMax : TotalMatches(srResults) = n
    /\ \E c, d \in SearchChunks :
          /\ FileOfChunk(c) # FileOfChunk(d)
          /\ srResults[c] # <<>> /\ srResults[d] # <<>>
    /\ \E c \in SearchChunks : srDropped[c] > 0

(***************************************************************************)
(* scheduler.py: calculate_file_workers and create_batches                 *)
(***************************************************************************)
MaxFiles == 6       \* paths of one request
MaxWorkers == 4     \* the largest worker budget

MiB == 1024 * 1024
\* the default of min_chunk_size_mb, and what create_batches passes
MinChunkBytes == 20 * MiB

\* a file smaller than a chunk and one of four chunks
SizeChoices == {5 * MiB, 80 * MiB}
NoSuchFile == [exists |-> FALSE, size |-> 0]
FileChoices == {NoSuchFile} \cup [exists : {TRUE}, size : SizeChoices]

Max(a, b) == IF a >= b THEN a ELSE b
Min(a, b) == IF a <= b THEN a ELSE b

FileTask(filepath, file_size, num_workers) ==
    [filepath |-> filepath, file_size |-> file_size, num_workers |-> num_workers]

\* potential_chunks: "How many chunks this file COULD use (unconstrained)"
PotentialChunks(size, min_chunk) == Max(1, size \div min_chunk)

\* file_info: the paths that exist, with their sizes and potential chunks
FileInfo(files, filepaths, min_chunk) ==
    LET existing == SelectSeq(filepaths, LAMBDA f : files[f].exists)
    IN  [k \in 1..Len(existing) |->
           [path |-> existing[k], size |-> files[existing[k]].size,
            potential_chunks |-> PotentialChunks(files[existing[k]].size, min_chunk)]]

RECURSIVE TotalPotential(_)
TotalPotential(info) ==
    IF info = <<>> THEN 0 ELSE Head(info).potential_chunks + TotalPotential(Tail(info))

\* no cap by the remaining workers
NoCapByRemaining(workers, max_subprocesses, total_allocated) == workers

\* "Cap by remaining workers"
CapByRemaining(workers, max_subprocesses, total_allocated) ==
    Min(workers, max_subprocesses - total_allocated)

\* no cap by the file's potential
NoCapByPotential(workers, potential_chunks) == workers

\* "Cap by file's actual potential"
CapByPotential(workers, potential_chunks) == Min(workers, potential_chunks)

\* the allocation loop from file i on, total_allocated workers given so far
RECURSIVE AllocateFrom(_, _, _, _, _)
AllocateFrom(info, i, total_allocated, total_potential, max_subprocesses) ==
    IF i > Len(info) THEN <<>>
    ELSE
      LET potential == info[i].potential_chunks
          share == IF i = Len(info)
                   THEN max_subprocesses - total_allocated
                   ELSE CapByPotential(
                            IF total_potential > 0
                            THEN Max(1, (potential * max_subprocesses) \div total_potential)
                            ELSE 1,
                            potential)
          workers == CapByRemaining(Max(1, share), max_subprocesses, total_allocated)
          given == IF workers > 0
                   THEN <<FileTask(info[i].path, info[i].size, workers)>> ELSE <<>>
          total == IF workers > 0 THEN total_allocated + workers ELSE total_allocated
      IN  IF total >= max_subprocesses
          THEN given \o [k \in 1..(Len(info) - i) |->
                            FileTask(info[i + k].path, info[i + k].size, 0)]
          ELSE given \o AllocateFrom(info, i + 1, total, total_potential, max_subprocesses)

CalculateFileWorkers(files, filepaths, max_subprocesses, min_chunk) ==
    LET info == FileInfo(files, filepaths, min_chunk)
    IN  AllocateFrom(info, 1, 0, TotalPotential(info), max_subprocesses)

RECURSIVE SumWorkers(_)
SumWorkers(file_tasks) ==
    IF file_tasks = <<>> THEN 0
    ELSE Head(file_tasks).num_workers + SumWorkers(Tail(file_tasks))

\* the position a slice bound n stands for in a list of length len: a
\* negative bound counts from the end
SliceBound(n, len) == IF n < 0 THEN Max(0, len + n) ELSE Min(n, len)

\* q[:n] and q[n:]
Take(q, n) == SubSeq(q, 1, SliceBound(n, Len(q)))
Drop(q, n) == SubSeq(q, SliceBound(n, Len(q)) + 1, Len(q))

\* max_workers is any integer: the budgets from -1 to MaxWorkers
WorkerChoices == (-1)..MaxWorkers
\* the turns of `while remaining` that are followed (a list of MaxFiles
\* files and a budget of 1 or more need fewer)
MaxBatches == MaxFiles + 2

SchedIdle ==
    /\ schFiles = <<>>
    /\ schW = 0
    /\ schPc = "idle"
    /\ schTasks = <<>>
    /\ schRemaining = <<>>
    /\ schBatches = <<>>

SchedInit ==
    /\ schFiles \in SeqsUpTo(FileChoices, MaxFiles)
    /\ schW \in WorkerChoices
    /\ schPc = "start"
    /\ schTasks = <<>>
    /\ schRemaining = <<>>
    /\ schBatches = <<>>

\* calculate_file_workers(filepaths, max_subprocesses)
Allocate ==
    /\ schPc = "start"
    /\ schTasks' = CalculateFileWorkers(schFiles, [i \in 1..Len(schFiles) |-> i],
                                        schW, MinChunkBytes)
    /\ schPc' = "allocated"
    /\ UNCHANGED <<schFiles, schW, schRemaining, schBatches, notSchedVars>>

\* create_batches(tasks, max_workers), up to its loop
CreateBatches ==
    /\ schPc = "allocated"
    /\ LET first_batch == SelectSeq(schTasks, LAMBDA t : t.num_workers > 0)
       IN  schBatches' = IF first_batch # <<>> THEN <<first_batch>> ELSE <<>>
    /\ schRemaining' = SelectSeq(schTasks, LAMBDA t : t.num_workers = 0)
    /\ schPc' = "batching"
    /\ UNCHANGED <<schFiles, schW, schTasks, notSchedVars>>

\* one turn of `while remaining`
NextBatch ==
    /\ schPc = "batching"
    /\ schRemaining # <<>>
    /\ Len(schBatches) < MaxBatches
    /\ LET batch_files == Take(schRemaining, schW)
           batch_tasks == CalculateFileWorkers(schFiles,
                              [k \in 1..Len(batch_files) |-> batch_files[k].filepath],
                              schW, 20 * 1024 * 1024)
       IN  schBatches' = Append(schBatches, batch_tasks)
    /\ schRemaining' = Drop(schRemaining, schW)
    /\ UNCHANGED <<schFiles, schW, schPc, schTasks, notSchedVars>>

\* `return batches`
ReturnBatches ==
    /\ schPc = "batching"
    /\ schRemaining = <<>>
    /\ schPc' = "done"
    /\ UNCHANGED <<schFiles, schW, schTasks, schRemaining, schBatches, notSchedVars>>

SchedNext ==
    \/ Allocate
    \/ CreateBatches
    \/ NextBatch
    \/ ReturnBatches

\* C9: for a budget W >= 1, the workers given by calculate_file_workers sum
\* to at most W, and so do the workers of every batch of create_batches.
C9_WorkersWithinBudget ==
    schW >= 1 =>
        /\ SumWorkers(schTasks) <= schW
        /\ \A b \in 1..Len(schBatches) : SumWorkers(schBatches[b]) <= schW

\* a second batch was made, and the first allocation and a later batch both
\* use the whole budget with a file that has more than one worker
C9_Witness ==
    /\ schPc = "done"
    /\ Len(schBatches) >= 2
    /\ SumWorkers(schTasks) = schW
    /\ \E b \in 2..Len(schBatches) :
          /\ SumWorkers(schBatches[b]) = schW
          /\ \E k \in 1..Len(schBatches[b]) : schBatches[b][k].num_workers >= 2

\* C10: for a budget W >= 1, when create_batches returns, every existing
\* file of the request is in some batch with at least one worker (the
\* statement of the claim).
C10_EveryFileGetsAWorker ==
    (schW >= 1 /\ schPc = "done") =>
        \A f \in 1..Len(schFiles) :
            schFiles[f].exists =>
                \E b \in 1..Len(schBatches) : \E k \in 1..Len(schBatches[b]) :
                    /\ schBatches[b][k].filepath = f
                    /\ schBatches[b][k].num_workers >= 1

\* the task of list q is within the potential of its file
WithinPotential(q, k) ==
    q[k].num_workers <= PotentialChunks(q[k].file_size, MinChunkBytes)

\* the lists calculate_file_workers has returned: the first allocation and
\* the recalculated batches (the first batch is part of the first allocation)
Allocations == <<schTasks>> \o SubSeq(schBatches, 2, Len(schBatches))

C30_EveryTurnTakesFiles ==
    [][NextBatch => Len(schRemaining') < Len(schRemaining)]_vars

(***************************************************************************)
(* unified_index.py: the line index of one file and the two mappings      *)
(* between line numbers and byte offsets that use it                      *)
(***************************************************************************)
MaxFileLen == 5
MaxStep == 3

NL == "\n"
Bytes == {"x", NL}
FileContents == SeqsUpTo(Bytes, MaxFileLen)
StepChoices == 0..MaxStep

\* the position of the first newline of bytes at or after position n, or
\* Len(bytes) when there is none: where the line starting at n ends
RECURSIVE LineEnd(_, _)
LineEnd(bytes, n) ==
    IF n >= Len(bytes) \/ bytes[n] = NL THEN n ELSE LineEnd(bytes, n + 1)

\* `for line in f` on a file opened 'rb': each line runs up to and including
\* its newline, the last one up to the end of the file
RECURSIVE SplitLines(_)
SplitLines(bytes) ==
    IF bytes = <<>> THEN <<>>
    ELSE LET n == LineEnd(bytes, 1)
         IN  <<SubSeq(bytes, 1, n)>> \o SplitLines(SubSeq(bytes, n + 1, Len(bytes)))

\* f.seek(offset) and the lines read from there on
LinesFrom(bytes, offset) == SplitLines(SubSeq(bytes, offset + 1, Len(bytes)))

\* build_index, the checkpoint recorded once line current_line has been
\* read and current_offset is the offset of its end
CheckpointAtLineStart(current_line, current_offset) == <<current_line, current_offset>>
Checkpoint(current_line, current_offset) == <<current_line + 1, current_offset>>

\* build_index, its loop from the k-th line on: the checkpoints appended
RECURSIVE BuildFrom(_, _, _, _, _)
BuildFrom(lines, k, current_offset, next_checkpoint, step_bytes) ==
    IF k > Len(lines) THEN <<>>
    ELSE LET offset == current_offset + Len(lines[k])
         IN  IF offset >= next_checkpoint
             THEN <<Checkpoint(k, offset)>>
                  \o BuildFrom(lines, k + 1, offset, offset + step_bytes, step_bytes)
             ELSE BuildFrom(lines, k + 1, offset, next_checkpoint, step_bytes)

BuildIndex(bytes, step_bytes) ==
    LET lines == SplitLines(bytes)
    IN  [line_index |-> <<<<1, 0>>>> \o BuildFrom(lines, 1, 0, step_bytes, step_bytes),
         line_count |-> Len(lines)]

\* bisect.bisect_right(a, x)
RECURSIVE BisectRight(_, _, _, _)
BisectRight(a, x, lo, hi) ==
    IF lo >= hi THEN lo
    ELSE LET mid == (lo + hi) \div 2
         IN  IF x < a[mid + 1] THEN BisectRight(a, x, lo, mid)
             ELSE BisectRight(a, x, mid + 1, hi)

Column(line_index, c) == [j \in 1..Len(line_index) |-> line_index[j][c]]

\* the entry at or before x in column c (1: line numbers, 2: offsets)
EntryAtBisect(line_index, c, x) ==
    LET idx == BisectRight(Column(line_index, c), x, 0, Len(line_index))
    IN  line_index[Min(idx, Len(line_index) - 1) + 1]
EntryBefore(line_index, c, x) ==
    LET idx == BisectRight(Column(line_index, c), x, 0, Len(line_index)) - 1
    IN  line_index[Max(idx, 0) + 1]

find_line_offset(line_index, target_line) ==
    IF line_index = <<>> THEN <<1, 0>>
    ELSE EntryBefore(line_index, 1, target_line)

\* calculate_exact_offset_for_line, reading on from a known line start
RECURSIVE ScanForLine(_, _, _, _, _)
ScanForLine(lines, k, current_line, current_offset, target_line) ==
    IF k > Len(lines) THEN -1
    ELSE IF current_line = target_line THEN current_offset
    ELSE ScanForLine(lines, k + 1, current_line + 1,
                     current_offset + Len(lines[k]), target_line)

\* index: the line index handed in, or <<>> when the file has none (the
\* file is below the large file threshold and is read from its start)
calculate_exact_offset_for_line(bytes, target_line, index) ==
    IF index # <<>>
    THEN LET entry == find_line_offset(index, target_line)
         IN  IF entry[1] = target_line THEN entry[2]
             ELSE ScanForLine(LinesFrom(bytes, entry[2]), 1, entry[1], entry[2],
                              target_line)
    ELSE ScanForLine(SplitLines(bytes), 1, 1, 0, target_line)

\* the line read at current_offset holds the target offset
EndsAtOrAfterTarget(current_offset, length, target_offset) ==
    current_offset + length >= target_offset
HoldsTarget(current_offset, length, target_offset) ==
    current_offset + length > target_offset

\* calculate_exact_line_for_offset, reading on from a known line start
RECURSIVE ScanForOffset(_, _, _, _, _)
ScanForOffset(lines, k, current_line, current_offset, target_offset) ==
    IF k > Len(lines) THEN -1
    ELSE IF current_offset = target_offset THEN current_line
    ELSE IF HoldsTarget(current_offset, Len(lines[k]), target_offset) THEN current_line
    ELSE ScanForOffset(lines, k + 1, current_line + 1,
                       current_offset + Len(lines[k]), target_offset)

calculate_exact_line_for_offset(bytes, target_offset, index) ==
    IF index # <<>>
    THEN LET entry == EntryBefore(index, 2, target_offset)
         IN  IF entry[2] = target_offset THEN entry[1]
             ELSE ScanForOffset(LinesFrom(bytes, entry[2]), 1, entry[1], entry[2],
                                target_offset)
    ELSE ScanForOffset(SplitLines(bytes), 1, 1, 0, target_offset)

\* sorted(set(target_offsets))
RECURSIVE SortedOffsets(_)
SortedOffsets(offsets) ==
    IF offsets = {} THEN <<>>
    ELSE LET least == CHOOSE o \in offsets : \A other \in offsets : o <= other
         IN  <<least>> \o SortedOffsets(offsets \ {least})

\* "Skip offsets that are before our start position"
RECURSIVE SkipBefore(_, _)
SkipBefore(pending, start_offset) ==
    IF pending # <<>> /\ Head(pending) < start_offset
    THEN SkipBefore(Tail(pending), start_offset)
    ELSE pending

\* "Check all offsets that fall within this line": the offsets still
\* pending after the line and the results with those of the line set
RECURSIVE WithinLine(_, _, _, _, _)
WithinLine(pending, current_offset, line_end_offset, current_line, results) ==
    IF pending = <<>> THEN <<pending, results>>
    ELSE LET target == Head(pending)
         IN  IF target < current_offset
             THEN WithinLine(Tail(pending), current_offset, line_end_offset,
                             current_line, results)
             ELSE IF target < line_end_offset
             THEN WithinLine(Tail(pending), current_offset, line_end_offset,
                             current_line, [results EXCEPT ![target] = current_line])
             ELSE <<pending, results>>

\* calculate_lines_for_offsets_batch, its single pass over the lines
RECURSIVE BatchScan(_, _, _, _, _, _)
BatchScan(lines, k, current_line, current_offset, pending, results) ==
    IF k > Len(lines) THEN results
    ELSE LET line_end_offset == current_offset + Len(lines[k])
             after == WithinLine(pending, current_offset, line_end_offset,
                                 current_line, results)
         IN  IF after[1] = <<>> THEN after[2]
             ELSE BatchScan(lines, k + 1, current_line + 1, line_end_offset,
                            after[1], after[2])

\* target_offsets: the set of the offsets asked for (not empty)
calculate_lines_for_offsets_batch(bytes, target_offsets, index) ==
    LET sorted_offsets == SortedOffsets(target_offsets)
        line_index == IF index # <<>> THEN index ELSE <<<<1, 0>>>>
        start == EntryBefore(line_index, 2, sorted_offsets[1])
    IN  BatchScan(LinesFrom(bytes, start[2]), 1, start[1], start[2],
                  SkipBefore(sorted_offsets, start[2]),
                  [o \in target_offsets |-> -1])

\* the lists of offsets a batch lookup is given: one or two offsets of the
\* file, its size included
OffsetLists == {offsets \in SUBSET (0..MaxFileLen) : Cardinality(offsets) \in {1, 2}}

NoIndex == [line_index |-> <<>>, line_count |-> 0]
NoQuery == [kind |-> "none", arg |-> 0, indexed |-> FALSE,
            offset |-> 0, line |-> 0, next_offset |-> 0]

IndexIdle ==
    /\ ixFile = <<>>
    /\ ixStep = 1
    /\ ixPc = "idle"
    /\ ixIndex = NoIndex
    /\ ixQuery = NoQuery

IndexInit ==
    /\ ixFile \in FileContents
    /\ ixStep \in StepChoices
    /\ ixPc = "start"
    /\ ixIndex = NoIndex
    /\ ixQuery = NoQuery

\* build_index(source_path, step_bytes)
BuildTheIndex ==
    /\ ixPc = "start"
    /\ ixIndex' = BuildIndex(ixFile, ixStep)
    /\ ixPc' = "built"
    /\ UNCHANGED <<ixFile, ixStep, ixQuery, notIndexVars>>

\* the index a lookup is handed: the one built, or none
IndexArg(indexed) == IF indexed THEN ixIndex.line_index ELSE <<>>

\* offset = calculate_exact_offset_for_line(f, L), then
\* calculate_exact_line_for_offset(f, offset)
LineRoundTrip(target_line, indexed) ==
    /\ ixPc = "built"
    /\ ixQuery = NoQuery
    /\ LET offset == calculate_exact_offset_for_line(ixFile, target_line, IndexArg(indexed))
       IN  ixQuery' = [kind |-> "line", arg |-> target_line, indexed |-> indexed,
                       offset |-> offset,
                       line |-> calculate_exact_line_for_offset(ixFile, offset, IndexArg(indexed)),
                       next_offset |-> 0]
    /\ UNCHANGED <<ixFile, ixStep, ixPc, ixIndex, notIndexVars>>

\* k = calculate_exact_line_for_offset(f, i), then
\* calculate_exact_offset_for_line(f, k) and (f, k + 1)
OffsetBracket(target_offset, indexed) ==
    /\ ixPc = "built"
    /\ ixQuery = NoQuery
    /\ LET k == calculate_exact_line_for_offset(ixFile, target_offset, IndexArg(indexed))
       IN  ixQuery' = [kind |-> "offset", arg |-> target_offset, indexed |-> indexed,
                       line |-> k,
                       offset |-> calculate_exact_offset_for_line(ixFile, k, IndexArg(indexed)),
                       next_offset |-> calculate_exact_offset_for_line(ixFile, k + 1, IndexArg(indexed))]
    /\ UNCHANGED <<ixFile, ixStep, ixPc, ixIndex, notIndexVars>>

\* calculate_lines_for_offsets_batch(f, offsets, index), and
\* calculate_exact_line_for_offset(f, o, index) for each o of offsets
BatchLookup(offsets, indexed) ==
    /\ ixPc = "built"
    /\ ixQuery = NoQuery
    /\ \A o \in offsets : o <= Len(ixFile)
    /\ ixQuery' = [kind |-> "batch", offsets |-> offsets, indexed |-> indexed,
                   batch |-> calculate_lines_for_offsets_batch(ixFile, offsets, IndexArg(indexed)),
                   single |-> [o \in offsets |->
                                 calculate_exact_line_for_offset(ixFile, o, IndexArg(indexed))]]
    /\ UNCHANGED <<ixFile, ixStep, ixPc, ixIndex, notIndexVars>>

\* calculate_exact_offset_for_line(f, L) with the built index and with none
LineWithAndWithoutIndex(target_line) ==
    /\ ixPc = "built"
    /\ ixQuery = NoQuery
    /\ ixQuery' = [kind |-> "line_twice", asked |-> target_line,
                   with_index |-> calculate_exact_offset_for_line(ixFile, target_line, ixIndex.line_index),
                   without_index |-> calculate_exact_offset_for_line(ixFile, target_line, <<>>)]
    /\ UNCHANGED <<ixFile, ixStep, ixPc, ixIndex, notIndexVars>>

\* calculate_exact_line_for_offset(f, i) with the built index and with none
OffsetWithAndWithoutIndex(target_offset) ==
    /\ ixPc = "built"
    /\ ixQuery = NoQuery
    /\ ixQuery' = [kind |-> "offset_twice", asked |-> target_offset,
                   with_index |-> calculate_exact_line_for_offset(ixFile, target_offset, ixIndex.line_index),
                   without_index |-> calculate_exact_line_for_offset(ixFile, target_offset, <<>>)]
    /\ UNCHANGED <<ixFile, ixStep, ixPc, ixIndex, notIndexVars>>

IndexNext ==
    \/ BuildTheIndex
    \/ \E L \in 1..(MaxFileLen + 1), indexed \in BOOLEAN : LineRoundTrip(L, indexed)
    \/ \E i \in 0..MaxFileLen, indexed \in BOOLEAN : OffsetBracket(i, indexed)
    \/ \E offsets \in OffsetLists, indexed \in BOOLEAN : BatchLookup(offsets, indexed)
    \/ \E L \in 1..(MaxFileLen + 1) : LineWithAndWithoutIndex(L)
    \/ \E i \in 0..MaxFileLen : OffsetWithAndWithoutIndex(i)

\* C12: every checkpoint (L, O) of the built index with O > 0 comes right
\* after a newline: the byte of the file at offset O - 1 is "\n".
C12_CheckpointsFollowNewline ==
    \A j \in 1..Len(ixIndex.line_index) :
        LET O == ixIndex.line_index[j][2]
        IN  O > 0 => ixFile[O] = NL

\* C13: the checkpoint list of a built index starts with (1, 0) and is
\* strictly increasing in its line numbers and in its offsets.
C13_CheckpointsStrictlyIncreasing ==
    ixPc = "built" =>
        /\ ixIndex.line_index[1] = <<1, 0>>
        /\ \A j \in 1..(Len(ixIndex.line_index) - 1) :
               /\ ixIndex.line_index[j][1] < ixIndex.line_index[j + 1][1]
               /\ ixIndex.line_index[j][2] < ixIndex.line_index[j + 1][2]

C13_Witness ==
    /\ ixPc = "built"
    /\ Len(ixIndex.line_index) >= 3
    /\ ixIndex.line_index[2][1] > 2

C27_BatchEqualsSingle ==
    ixQuery.kind = "batch" =>
        \A o \in ixQuery.offsets : ixQuery.batch[o] = ixQuery.single[o]

\* C29: for every file below the large file threshold and every line
\* number or byte offset, the two lookups give the same value with the
\* index that build_index built as with no index.
C29_SameWithAndWithoutIndex ==
    ixQuery.kind \in {"line_twice", "offset_twice"} =>
        ixQuery.with_index = ixQuery.without_index

(***************************************************************************)
(* unified_index.py: needs_rebuild, and the analyzer's use of the cached  *)
(* index record                                                            *)
(***************************************************************************)
MaxAnomalies == 1

SourceStats == [size : 0..MaxSize, mtime : 0..MaxMtime]

\* a cached UnifiedFileIndex: load_index returned it, or None (present = FALSE)
IndexRecords ==
    [present : {TRUE},
     header : {BuildRecord("index", st, UNIFIED_INDEX_VERSION) : st \in SourceStats},
     analysis_performed : BOOLEAN,
     anomalies : 0..MaxAnomalies]
NoIndexRecord ==
    [present |-> FALSE, header |-> NoRecord, analysis_performed |-> FALSE, anomalies |-> 0]

\* is_index_valid: os.stat raising OSError (stat_ok = FALSE) makes it False
is_index_valid(stat_ok, stat, index) == stat_ok /\ IsValidFor(stat, index.header)

\* needs_rebuild(source_path, index, analyze)
NeedsRebuildWhenStale(stat_ok, stat, index, analyze) ==
    \/ ~index.present
    \/ ~is_index_valid(stat_ok, stat, index)
needs_rebuild(stat_ok, stat, index, analyze) ==
    \/ ~index.present
    \/ ~is_index_valid(stat_ok, stat, index)
    \/ analyze /\ ~index.analysis_performed

\* the analyzer's cache check: the cached record is bypassed and the index
\* rebuilt when needs_rebuild says so, or when the request detects anomalies
\* and the cached record has none
AnalyzerRebuilds(stat_ok, stat, index, analyze, detect_anomalies) ==
    \/ needs_rebuild(stat_ok, stat, index, analyze)
    \/ detect_anomalies /\ index.anomalies = 0

NoDecision == [by |-> "none", rebuild |-> FALSE]

RebuildIdle ==
    /\ rbRecord = NoIndexRecord
    /\ rbStat = [size |-> 0, mtime |-> 0]
    /\ rbStatOk = TRUE
    /\ rbRequest = [analyze |-> FALSE, detect_anomalies |-> FALSE]
    /\ rbDecision = NoDecision

RebuildInit ==
    /\ rbRecord \in IndexRecords \cup {NoIndexRecord}
    /\ rbStat \in SourceStats
    /\ rbStatOk \in BOOLEAN
    /\ rbRequest \in [analyze : BOOLEAN, detect_anomalies : BOOLEAN]
    /\ rbDecision = NoDecision

\* needs_rebuild(source_path, index, analyze), called on its own
CallNeedsRebuild ==
    /\ rbDecision = NoDecision
    /\ rbDecision' = [by |-> "needs_rebuild",
                      rebuild |-> needs_rebuild(rbStatOk, rbStat, rbRecord, rbRequest.analyze)]
    /\ UNCHANGED <<rbRecord, rbStat, rbStatOk, rbRequest, notRebuildVars>>

\* the analyzer deciding between the cached record and a rebuild
AnalyzeFile ==
    /\ rbDecision = NoDecision
    /\ rbDecision' = [by |-> "analyze_file",
                      rebuild |-> AnalyzerRebuilds(rbStatOk, rbStat, rbRecord,
                                                   rbRequest.analyze,
                                                   rbRequest.detect_anomalies)]
    /\ UNCHANGED <<rbRecord, rbStat, rbStatOk, rbRequest, notRebuildVars>>

RebuildNext == CallNeedsRebuild \/ AnalyzeFile

RecordInvalid == ~(rbStatOk /\ IsValidFor(rbStat, rbRecord.header))

MaxPlainLen == 5
MaxFrameSize == 3
EXTRA_READ_BYTES == 4096

SEEKABLE_MAGIC == "0x184D2A5E"
SEEK_TABLE_FOOTER_MAGIC == "0x8F92EAB1"

Plaintexts == SeqsUpTo(Bytes, MaxPlainLen)
FrameSizes == 1..MaxFrameSize

\* s[a:b] of Python, for 0 <= a
Slice(s, a, b) == SubSeq(s, a + 1, Min(b, Len(s)))

\* cctx.compress(chunk): one zstd frame, from its magic "Z" to its end "E",
\* the content in between in another alphabet than the plaintext's
CompressByte(b) == IF b = NL THEN "N" ELSE "X"
DecompressByte(c) == IF c = "N" THEN NL ELSE "x"
Compress(chunk) ==
    <<"Z">> \o [i \in 1..Len(chunk) |-> CompressByte(chunk[i])] \o <<"E">>

\* dctx.decompress(data): the content of the frame data starts with (what
\* follows the frame is ignored); an error when data does not start with a
\* whole frame
RECURSIVE FrameEnd(_, _)
FrameEnd(data, n) ==
    IF n > Len(data) THEN 0
    ELSE IF data[n] = "E" THEN n
    ELSE IF data[n] = "Z" THEN 0
    ELSE FrameEnd(data, n + 1)
ZstdError == [ok |-> FALSE, data |-> <<>>]
Decompress(data) ==
    IF Len(data) >= 2 /\ data[1] = "Z" /\ FrameEnd(data, 2) > 0
    THEN [ok |-> TRUE,
          data |-> [i \in 1..(FrameEnd(data, 2) - 2) |-> DecompressByte(data[i + 1])]]
    ELSE ZstdError

\* _create_with_pyzstd, the inner loop: the chunk that ends at c (not with a
\* newline) grows by reads of extra bytes up to the next newline, or to EOF
RECURSIVE ExtendChunk(_, _, _)
ExtendChunk(bytes, c, extra) ==
    LET extra_chunk == Slice(bytes, c, c + extra)
        newline_pos == LineEnd(extra_chunk, 1)
    IN  IF extra_chunk = <<>> THEN c
        ELSE IF extra_chunk[newline_pos] = NL THEN c + newline_pos
        ELSE ExtendChunk(bytes, c + Len(extra_chunk), extra)

\* where the chunk read at pos ends
FixedChunkEnd(bytes, pos, frame_size_bytes) == Min(pos + frame_size_bytes, Len(bytes))
AlignedChunkEnd(bytes, pos, frame_size_bytes) ==
    LET c == Min(pos + frame_size_bytes, Len(bytes))
    IN  IF bytes[c] = NL THEN c
        ELSE ExtendChunk(bytes, c, Min(EXTRA_READ_BYTES, frame_size_bytes))

\* _create_with_pyzstd, the outer loop: the chunks the input is read in
RECURSIVE PyzstdChunks(_, _, _)
PyzstdChunks(bytes, pos, frame_size_bytes) ==
    IF pos >= Len(bytes) THEN <<>>
    ELSE LET e == AlignedChunkEnd(bytes, pos, frame_size_bytes)
         IN  <<Slice(bytes, pos, e)>> \o PyzstdChunks(bytes, e, frame_size_bytes)

\* t2sz -s frame_size_bytes on an input that is no tar archive: input blocks
\* of exactly that size, the last one shorter
RECURSIVE T2szChunks(_, _, _)
T2szChunks(bytes, pos, frame_size_bytes) ==
    IF pos >= Len(bytes) THEN <<>>
    ELSE LET e == FixedChunkEnd(bytes, pos, frame_size_bytes)
         IN  <<Slice(bytes, pos, e)>> \o T2szChunks(bytes, e, frame_size_bytes)

RECURSIVE Concat(_)
Concat(seqs) == IF seqs = <<>> THEN <<>> ELSE Head(seqs) \o Concat(Tail(seqs))

\* the file written: the frames one after the other, then the skippable
\* frame that holds the seek table (_write_seek_table): its header, one
\* entry (compressed_size, decompressed_size) per frame, and the footer
WriteFile(chunks) ==
    [suffix |-> ".zst",
     data |-> Concat([i \in 1..Len(chunks) |-> Compress(chunks[i])]),
     skippable |-> [magic |-> SEEKABLE_MAGIC, frame_size |-> 8 * Len(chunks) + 9],
     entries |-> [i \in 1..Len(chunks) |-> <<Len(Compress(chunks[i])), Len(chunks[i])>>],
     footer |-> [magic |-> SEEK_TABLE_FOOTER_MAGIC, num_frames |-> Len(chunks), flags |-> 0]]

NoZst ==
    [suffix |-> "", data |-> <<>>,
     skippable |-> [magic |-> "", frame_size |-> 0],
     entries |-> <<>>,
     footer |-> [magic |-> "", num_frames |-> 0, flags |-> 0]]

\* create_seekable_zstd: by t2sz when the tool is installed, else by pyzstd
create_seekable_zstd(bytes, frame_size_bytes, t2sz_available) ==
    IF t2sz_available
    THEN WriteFile(T2szChunks(bytes, 0, frame_size_bytes))
    ELSE WriteFile(PyzstdChunks(bytes, 0, frame_size_bytes))

is_seekable_zstd(file) ==
    /\ file.suffix = ".zst"
    /\ file.footer.magic = SEEK_TABLE_FOOTER_MAGIC

\* read_seek_table, its loop over the entries: the offsets are the sums of
\* the sizes before
NextOffsetSame(offset, size) == offset
NextOffset(offset, size) == offset + size

RECURSIVE FramesFrom(_, _, _, _)
FramesFrom(entries, i, compressed_offset, decompressed_offset) ==
    IF i > Len(entries) THEN <<>>
    ELSE <<[index |-> i - 1,
            compressed_offset |-> compressed_offset,
            compressed_size |-> entries[i][1],
            decompressed_offset |-> decompressed_offset,
            decompressed_size |-> entries[i][2]]>>
         \o FramesFrom(entries, i + 1,
                       NextOffset(compressed_offset, entries[i][1]),
                       NextOffset(decompressed_offset, entries[i][2]))

\* read_seek_table: ValueError (ok = FALSE) without the footer magic
NotSeekable == [ok |-> FALSE, frames |-> <<>>]
read_seek_table(file) ==
    IF file.footer.magic # SEEK_TABLE_FOOTER_MAGIC THEN NotSeekable
    ELSE [ok |-> TRUE,
          frames |-> FramesFrom(SubSeq(file.entries, 1, file.footer.num_frames), 1, 0, 0)]

\* get_seekable_zstd_info: ValueError unless is_seekable_zstd
get_seekable_zstd_info(file) ==
    IF ~is_seekable_zstd(file) THEN NotSeekable ELSE read_seek_table(file)

compressed_end(frame) == frame.compressed_offset + frame.compressed_size
decompressed_end(frame) == frame.decompressed_offset + frame.decompressed_size

\* f.seek(frame.compressed_offset); f.read(frame.compressed_size)
FrameBytes(file, frame) == Slice(file.data, frame.compressed_offset, compressed_end(frame))

decompress_frame(file, frame) == Decompress(FrameBytes(file, frame))

\* decompress_range: where the requested range starts within a needed frame
WholeFrameStart(start_offset, frame) == 0
FrameSliceStart(start_offset, frame) == Max(0, start_offset - frame.decompressed_offset)

\* decompress_range, the loop over the needed frames from the k-th frame on
RECURSIVE RangeFrom(_, _, _, _, _)
RangeFrom(file, frames, k, start_offset, end_offset) ==
    IF k > Len(frames) THEN [ok |-> TRUE, data |-> <<>>]
    ELSE LET frame == frames[k]
             rest == RangeFrom(file, frames, k + 1, start_offset, end_offset)
         IN  IF frame.decompressed_offset < end_offset
                /\ decompressed_end(frame) > start_offset
             THEN LET frame_data == decompress_frame(file, frame)
                      frame_start == FrameSliceStart(start_offset, frame)
                      frame_end == Min(Len(frame_data.data),
                                       end_offset - frame.decompressed_offset)
                  IN  IF frame_data.ok /\ rest.ok
                      THEN [ok |-> TRUE,
                            data |-> Slice(frame_data.data, frame_start, frame_end)
                                     \o rest.data]
                      ELSE ZstdError
             ELSE rest

decompress_range(file, start_offset, length) ==
    LET table == read_seek_table(file)
        result == RangeFrom(file, table.frames, 1, start_offset, start_offset + length)
    IN  IF table.ok /\ result.ok
        THEN [ok |-> TRUE, data |-> Slice(result.data, 0, length)]
        ELSE ZstdError

NoInfo == [asked |-> FALSE, ok |-> FALSE, frames |-> <<>>]
NoRange == [asked |-> FALSE, start |-> 0, length |-> 0, ok |-> FALSE, data |-> <<>>]

ZstdIdle ==
    /\ zsPlain = <<>>
    /\ zsFrameSize = 1
    /\ zsT2sz = FALSE
    /\ zsPc = "idle"
    /\ zsFile = NoZst
    /\ zsInfo = NoInfo
    /\ zsRange = NoRange

ZstdInit ==
    /\ zsPlain \in Plaintexts
    /\ zsFrameSize \in FrameSizes
    /\ zsT2sz \in BOOLEAN
    /\ zsPc = "start"
    /\ zsFile = NoZst
    /\ zsInfo = NoInfo
    /\ zsRange = NoRange

\* create_seekable_zstd(input_path, output_path, frame_size_bytes)
CreateSeekableZstd ==
    /\ zsPc = "start"
    /\ zsFile' = create_seekable_zstd(zsPlain, zsFrameSize, zsT2sz)
    /\ zsPc' = "created"
    /\ UNCHANGED <<zsPlain, zsFrameSize, zsT2sz, zsInfo, zsRange, notZstdVars>>

\* the file is damaged on disk after its creation: one size of one entry of
\* the seek table is off by one, the footer stays as it is
DamageSeekTable(i, field) ==
    /\ zsPc = "created"
    /\ zsInfo = NoInfo
    /\ zsRange = NoRange
    /\ i \in 1..Len(zsFile.entries)
    /\ zsFile' = [zsFile EXCEPT !.entries[i][field] = @ + 1]
    /\ zsPc' = "damaged"
    /\ UNCHANGED <<zsPlain, zsFrameSize, zsT2sz, zsInfo, zsRange, notZstdVars>>

\* get_seekable_zstd_info(zst_path): the frames a reader is to work with,
\* or the error that sends it to streaming decompression
GetSeekableZstdInfo ==
    /\ zsPc \in {"created", "damaged"}
    /\ ~zsInfo.asked
    /\ zsInfo' = [asked |-> TRUE,
                  ok |-> get_seekable_zstd_info(zsFile).ok,
                  frames |-> get_seekable_zstd_info(zsFile).frames]
    /\ UNCHANGED <<zsPlain, zsFrameSize, zsT2sz, zsPc, zsFile, zsRange, notZstdVars>>

\* decompress_range(zst_path, start_offset, length) on the file as created,
\* once
DecompressRange(start_offset, length) ==
    /\ zsPc = "created"
    /\ ~zsRange.asked
    /\ LET result == decompress_range(zsFile, start_offset, length)
       IN  zsRange' = [asked |-> TRUE, start |-> start_offset, length |-> length,
                       ok |-> result.ok, data |-> result.data]
    /\ UNCHANGED <<zsPlain, zsFrameSize, zsT2sz, zsPc, zsFile, zsInfo, notZstdVars>>

ZstdNext ==
    \/ CreateSeekableZstd
    \/ \E i \in 1..MaxPlainLen, field \in 1..2 : DamageSeekTable(i, field)
    \/ GetSeekableZstdInfo
    \/ \E start_offset \in 0..(MaxPlainLen + 1), length \in 0..(MaxPlainLen + 1) :
           DecompressRange(start_offset, length)

\* C17: for a seekable zstd file created from plaintext P, every start >= 0
\* and every length >= 0, decompress_range(S, start, length) is
\* P[start : start + length].
C17_RangeEqualsPlaintextSlice ==
    zsRange.asked =>
        /\ zsRange.ok
        /\ zsRange.data = Slice(zsPlain, zsRange.start, zsRange.start + zsRange.length)

\* a range that starts inside one frame and ends inside a later one
C17_Witness ==
    /\ zsRange.asked
    /\ zsRange.ok
    /\ Len(zsFile.entries) >= 3
    /\ zsRange.start > 0
    /\ zsRange.start < zsFile.entries[1][2]
    /\ zsRange.start + zsRange.length > zsFile.entries[1][2] + zsFile.entries[2][2]
    /\ zsRange.start + zsRange.length < Len(zsPlain)
    /\ zsRange.data = Slice(zsPlain, zsRange.start, zsRange.start + zsRange.length)

\* the bytes of the file from a frame's compressed offset on, as many as its
\* compressed size, are one whole zstd frame of its decompressed size
LocatesItsFrame(frame) ==
    LET bytes == FrameBytes(zsFile, frame)
    IN  /\ Len(bytes) = frame.compressed_size
        /\ Decompress(bytes).ok
        /\ FrameEnd(bytes, 2) = Len(bytes)
        /\ Len(Decompress(bytes).data) = frame.decompressed_size

\* C18: in the frame list read from a created file, every frame starts
\* where the one before ends, in the compressed file and in the
\* decompressed stream, and every frame's compressed offset and size locate
\* exactly that frame's bytes in the file.
C18_FramesContiguousAndLocated ==
    (zsPc = "created" /\ zsInfo.asked) =>
        /\ zsInfo.ok
        /\ \A i \in 1..(Len(zsInfo.frames) - 1) :
               /\ zsInfo.frames[i + 1].compressed_offset = compressed_end(zsInfo.frames[i])
               /\ zsInfo.frames[i + 1].decompressed_offset = decompressed_end(zsInfo.frames[i])
        /\ \A i \in 1..Len(zsInfo.frames) : LocatesItsFrame(zsInfo.frames[i])

C18_Witness ==
    /\ zsPc = "created"
    /\ zsInfo.asked
    /\ Len(zsInfo.frames) >= 3
    /\ zsInfo.frames[3].compressed_offset > zsInfo.frames[3].decompressed_offset
    /\ LocatesItsFrame(zsInfo.frames[3])

\* C19: in a file produced by create_seekable_zstd, the decompressed
\* content of every frame but the last ends with a newline.
C19_FramesEndWithNewline ==
    (zsPc = "created" /\ zsInfo.asked) =>
        \A i \in 1..(Len(zsInfo.frames) - 1) :
            LET content == decompress_frame(zsFile, zsInfo.frames[i]).data
            IN  content # <<>> /\ content[Len(content)] = NL

RECURSIVE SumCompressedSizes(_)
SumCompressedSizes(entries) ==
    IF entries = <<>> THEN 0 ELSE Head(entries)[1] + SumCompressedSizes(Tail(entries))

\* C20: a .zst file that ends with the seek footer magic and whose entries
\* do not add up to the frame region before the seek table is detected: no
\* frame list is derived from its table (it is left to streaming
\* decompression).
C20_DamagedSeekTableDetected ==
    (   /\ zsInfo.asked
        /\ zsFile.suffix = ".zst"
        /\ zsFile.footer.magic = SEEK_TABLE_FOOTER_MAGIC
        /\ SumCompressedSizes(zsFile.entries) # Len(zsFile.data))
    => ~zsInfo.ok

(***************************************************************************)
(* request_store.py: the in-memory request store.  _requests maps a        *)
(* request id to its RequestInfo; every public function runs its body      *)
(* under the module lock _lock.  Threads are modelled with the position    *)
(* they hold inside the function they called.  Of a RequestInfo the model  *)
(* keeps completed_at and the six hook counters.                           *)
(***************************************************************************)
\* capacity of the store, scaled down from the source's 10000
MAX_STORED_REQUESTS == 2
NumThreads == 2
MaxCalls == 4
MaxStamp == 2

Threads == 1..NumThreads
RequestIds == 1..(MAX_STORED_REQUESTS + 1)
Stamps == 1..MaxStamp
EventTypes == {"on_file", "on_match", "on_complete", "on_other"}
HookCounters == {"hook_on_file_success", "hook_on_file_failed",
                 "hook_on_match_success", "hook_on_match_failed",
                 "hook_on_complete_success", "hook_on_complete_failed"}
NoRequest == [stored |-> FALSE]
NoCalls == [c \in HookCounters |-> 0]

\* RequestInfo(...) as a caller constructs it: not completed, counters 0
RequestInfo == [stored |-> TRUE, completed_at |-> NoTime, hooks |-> NoCalls]

StoredIds(requests) == {i \in RequestIds : requests[i].stored}

\* completed = [(rid, info) for ... if info.completed_at is not None]
CompletedIds(requests) == {i \in StoredIds(requests) : requests[i].completed_at # NoTime}

StampOf(requests, i) == CHOOSE t \in Stamps : requests[i].completed_at = {t}

\* to_remove = max(len(completed) // 10, min(100, len(completed)))
ToRemove(n) == Max(n \div 10, Min(100, n))

\* the ids of the first to_remove entries of completed sorted by
\* completed_at (requests completed at the same time: any of them)
OldestCompleted(requests) ==
    LET completed == CompletedIds(requests)
        k == Min(ToRemove(Cardinality(completed)), Cardinality(completed))
    IN {S \in SUBSET completed :
            /\ Cardinality(S) = k
            /\ \A i \in S : \A j \in completed \ S :
                   StampOf(requests, i) <= StampOf(requests, j)}

_cleanup_oldest_completed(requests, removed) ==
    [i \in RequestIds |-> IF i \in removed THEN NoRequest ELSE requests[i]]

\* the counter increment_hook_counter picks, None for an unknown event type
CounterOf(event_type, success) ==
    IF event_type = "on_file"
    THEN IF success THEN "hook_on_file_success" ELSE "hook_on_file_failed"
    ELSE IF event_type = "on_match"
    THEN IF success THEN "hook_on_match_success" ELSE "hook_on_match_failed"
    ELSE IF event_type = "on_complete"
    THEN IF success THEN "hook_on_complete_success" ELSE "hook_on_complete_failed"
    ELSE None

NoCall == [pc |-> "idle", op |-> None, request_id |-> 0, counter |-> None, read |-> 0]

StoreIdle ==
    /\ stRequests = [i \in RequestIds |-> NoRequest]
    /\ stLock = {}
    /\ stThreads = [t \in Threads |-> NoCall]
    /\ stCalls = [i \in RequestIds |-> NoCalls]
    /\ stSet = [i \in RequestIds |-> {}]
    /\ stStarted = 0

StoreInit == StoreIdle

LockIgnored(t) == TRUE
\* with _lock: a thread enters when no thread holds the lock
LockFree(t) == stLock = {}

\* a thread calls one of the three functions and enters its `with _lock`
Enter(t, op, request_id, counter) ==
    /\ stThreads[t].pc = "idle"
    /\ stStarted < MaxCalls
    /\ LockFree(t)
    /\ stLock' = stLock \cup {t}
    /\ stThreads' = [stThreads EXCEPT ![t] =
           [pc |-> "locked", op |-> op, request_id |-> request_id,
            counter |-> counter, read |-> 0]]
    /\ stStarted' = stStarted + 1
    /\ UNCHANGED <<stRequests, stCalls, stSet>>

Leave(t) ==
    /\ stLock' = stLock \ {t}
    /\ stThreads' = [stThreads EXCEPT ![t] = NoCall]

\* store_request(info): at capacity the oldest completed requests go first,
\* then the request is stored under its id
StoreRequest(t) ==
    /\ stThreads[t].pc = "locked" /\ stThreads[t].op = "store_request"
    /\ LET rid == stThreads[t].request_id
           full == Cardinality(StoredIds(stRequests)) >= MAX_STORED_REQUESTS
       IN \E removed \in (IF full THEN OldestCompleted(stRequests) ELSE {{}}) :
            LET kept == _cleanup_oldest_completed(stRequests, removed)
                gone == removed \cup {rid}
            IN /\ stRequests' = [kept EXCEPT ![rid] = RequestInfo]
               /\ stCalls' = [i \in RequestIds |-> IF i \in gone THEN NoCalls ELSE stCalls[i]]
               /\ stSet' = [i \in RequestIds |-> IF i \in gone THEN {} ELSE stSet[i]]
    /\ Leave(t)
    /\ UNCHANGED stStarted

\* update_request(request_id, completed_at=stamp)
UpdateCompletedAt(t, stamp) ==
    /\ stThreads[t].pc = "locked" /\ stThreads[t].op = "update_request"
    /\ stThreads[t].counter = None
    /\ LET rid == stThreads[t].request_id
       IN stRequests' = IF stRequests[rid].stored
                        THEN [stRequests EXCEPT ![rid].completed_at = {stamp}]
                        ELSE stRequests
    /\ Leave(t)
    /\ UNCHANGED <<stCalls, stSet, stStarted>>

\* update_request(request_id, <hook counter>=value): setattr on any
\* attribute the RequestInfo has
UpdateHookCounter(t, value) ==
    /\ stThreads[t].pc = "locked" /\ stThreads[t].op = "update_request"
    /\ stThreads[t].counter # None
    /\ LET rid == stThreads[t].request_id
           c == stThreads[t].counter
       IN IF stRequests[rid].stored
          THEN /\ stRequests' = [stRequests EXCEPT ![rid].hooks[c] = value]
               /\ stSet' = [stSet EXCEPT ![rid] = @ \cup {c}]
          ELSE UNCHANGED <<stRequests, stSet>>
    /\ Leave(t)
    /\ UNCHANGED <<stCalls, stStarted>>

\* increment_hook_counter: absent request or unknown event type, nothing;
\* otherwise the read half of `info.<counter> += 1`
IncrementRead(t) ==
    /\ stThreads[t].pc = "locked" /\ stThreads[t].op = "increment_hook_counter"
    /\ LET rid == stThreads[t].request_id
           c == stThreads[t].counter
       IN IF stRequests[rid].stored /\ c # None
          THEN /\ stThreads' = [stThreads EXCEPT ![t].pc = "read",
                                                 ![t].read = stRequests[rid].hooks[c]]
               /\ UNCHANGED stLock
          ELSE Leave(t)
    /\ UNCHANGED <<stRequests, stCalls, stSet, stStarted>>

\* the write half of `info.<counter> += 1`, then the lock is released
IncrementWrite(t) ==
    /\ stThreads[t].pc = "read"
    /\ LET rid == stThreads[t].request_id
           c == stThreads[t].counter
       IN IF stRequests[rid].stored
          THEN /\ stRequests' = [stRequests EXCEPT ![rid].hooks[c] = stThreads[t].read + 1]
               /\ stCalls' = [stCalls EXCEPT ![rid][c] = @ + 1]
          ELSE UNCHANGED <<stRequests, stCalls>>
    /\ Leave(t)
    /\ UNCHANGED <<stSet, stStarted>>

CallStoreRequest == \E t \in Threads, rid \in RequestIds :
    Enter(t, "store_request", rid, None) /\ UNCHANGED notStoreVars
CallUpdateRequest == \E t \in Threads, rid \in RequestIds, c \in {None, "hook_on_file_success"} :
    Enter(t, "update_request", rid, c) /\ UNCHANGED notStoreVars
CallIncrementHookCounter == \E t \in Threads, rid \in RequestIds, e \in EventTypes, ok \in BOOLEAN :
    Enter(t, "increment_hook_counter", rid, CounterOf(e, ok)) /\ UNCHANGED notStoreVars
DoStoreRequest == \E t \in Threads : StoreRequest(t) /\ UNCHANGED notStoreVars
DoUpdateCompletedAt == \E t \in Threads, s \in Stamps : UpdateCompletedAt(t, s) /\ UNCHANGED notStoreVars
DoUpdateHookCounter == \E t \in Threads, v \in 0..1 : UpdateHookCounter(t, v) /\ UNCHANGED notStoreVars
DoIncrementRead == \E t \in Threads : IncrementRead(t) /\ UNCHANGED notStoreVars
DoIncrementWrite == \E t \in Threads : IncrementWrite(t) /\ UNCHANGED notStoreVars

StoreNext ==
    \/ CallStoreRequest
    \/ CallUpdateRequest
    \/ CallIncrementHookCounter
    \/ DoStoreRequest
    \/ DoUpdateCompletedAt
    \/ DoUpdateHookCounter
    \/ DoIncrementRead
    \/ DoIncrementWrite

\* no call is part-way through an increment
Quiet == \A t \in Threads : stThreads[t].pc # "read"

\* C24 as stated: under any interleaving of store_request, update_request
\* and increment_hook_counter calls, every hook counter of a request that
\* stays stored equals the number of increment_hook_counter calls made for
\* that request and counter.
C24_CountersEqualCalls ==
    \A i \in RequestIds : stRequests[i].stored =>
        \A c \in HookCounters : stRequests[i].hooks[c] = stCalls[i][c]

\* C24 amended: the same, for every counter that no update_request call
\* has assigned while the request was stored.
C24_CountersEqualCallsUnlessAssigned ==
    \A i \in RequestIds : stRequests[i].stored =>
        \A c \in HookCounters \ stSet[i] : stRequests[i].hooks[c] = stCalls[i][c]

\* two increments of one counter of one request have completed while other
\* calls ran on the store
C24_Witness ==
    \E i \in RequestIds : /\ stRequests[i].stored
                          /\ stCalls[i]["hook_on_file_success"] = 2
                          /\ "hook_on_file_success" \notin stSet[i]
                          /\ stStarted = MaxCalls

\* C25: after any sequence of store_request calls the store holds at most
\* MAX_STORED_REQUESTS requests.
C25_AtMostMaxStored == Cardinality(StoredIds(stRequests)) <= MAX_STORED_REQUESTS

(***************************************************************************)
(* unified_index.py load_index / save_index and trace_cache.py             *)
(* load_trace_cache / save_trace_cache: what a call gives back, or raises, *)
(* for every condition of the cache file and of the cache directory.       *)
(***************************************************************************)
\* what the cache file holds, when it can be opened
FileTexts == {"empty", "truncated", "not_utf8", "json_list", "json_null",
              "other_version", "missing_fields", "stale", "good"}
\* what is at the cache path: nothing, something that cannot be opened (no
\* permission, a directory), or a file with one of the texts
CacheFiles == {"missing", "unreadable"} \cup FileTexts
\* the cache directory: writable, not writable, or out of space
CacheDirs == {"ok", "read_only", "full"}

\* the exception classes involved and their base classes
BaseOf(cls) ==
    CASE cls = "JSONDecodeError" -> "ValueError"
      [] cls = "UnicodeDecodeError" -> "ValueError"
      [] cls = "ValidationError" -> "ValueError"
      [] cls = "ValueError" -> "Exception"
      [] cls = "KeyError" -> "LookupError"
      [] cls = "LookupError" -> "Exception"
      [] cls = "FileNotFoundError" -> "OSError"
      [] cls = "PermissionError" -> "OSError"
      [] cls = "OSError" -> "Exception"
      [] cls = "AttributeError" -> "Exception"
      [] OTHER -> None

RECURSIVE IsInstance(_, _)
IsInstance(cls, base) ==
    IF cls = None THEN FALSE
    ELSE cls = base \/ IsInstance(BaseOf(cls), base)

Returns(value) == [returned |-> value, raised |-> None]
Raises(cls) == [returned |-> None, raised |-> cls]

\* try: body / except (handlers): return on_error
TryExcept(body, handlers, on_error) ==
    IF body.raised # None /\ \E h \in handlers : IsInstance(body.raised, h)
    THEN Returns(on_error)
    ELSE body

\* with open(cache_path, encoding='utf-8') as f: data = json.load(f),
\* followed by data.get('version'): the exception raised, None when the
\* version can be read
ReadVersion(file) ==
    CASE file = "missing" -> "FileNotFoundError"
      [] file = "unreadable" -> "PermissionError"
      [] file = "not_utf8" -> "UnicodeDecodeError"
      [] file \in {"empty", "truncated"} -> "JSONDecodeError"
      [] file \in {"json_list", "json_null"} -> "AttributeError"
      [] OTHER -> None

load_index(file) ==
    IF file = "missing" THEN Returns("None")
    ELSE TryExcept(
           IF ReadVersion(file) # None THEN Raises(ReadVersion(file))
           ELSE IF file = "other_version" THEN Returns("None")
           ELSE IF file = "missing_fields" THEN Raises("ValidationError")
           ELSE IF file = "stale" THEN Returns("None")
           ELSE Returns("index"),
           {"JSONDecodeError", "ValueError", "KeyError"}, "None")

load_trace_cache(file) ==
    TryExcept(
      IF ReadVersion(file) # None THEN Raises(ReadVersion(file))
      ELSE IF file = "other_version" THEN Returns("None")
      ELSE Returns("data"),
      {"OSError", "JSONDecodeError"}, "None")

\* open(cache_path, 'w') and json.dump: the exception raised, None when the
\* file was written
WriteFails(file, dir) ==
    IF dir = "read_only" \/ file = "unreadable" THEN "PermissionError"
    ELSE IF dir = "full" THEN "OSError"
    ELSE None

\* the cache file after a write: whole, cut short when the space ran out,
\* as it was when it could not be opened
Written(file, dir) ==
    IF dir = "read_only" \/ file = "unreadable" THEN file
    ELSE IF dir = "full" THEN "truncated"
    ELSE "good"

save_index(file, dir) ==
    TryExcept(IF WriteFails(file, dir) # None THEN Raises(WriteFails(file, dir))
              ELSE Returns("True"),
              {"Exception"}, "False")

save_trace_cache(file, dir) ==
    TryExcept(IF WriteFails(file, dir) # None THEN Raises(WriteFails(file, dir))
              ELSE Returns("True"),
              {"OSError"}, "False")

NoOutcome == [fn |-> None, file |-> None, dir |-> None, returned |-> None, raised |-> None]
Outcome(fn, result) ==
    [fn |-> fn, file |-> ioFile, dir |-> ioDir,
     returned |-> result.returned, raised |-> result.raised]

CacheIoIdle ==
    /\ ioFile = "missing"
    /\ ioDir = "ok"
    /\ ioOutcome = NoOutcome

CacheIoInit ==
    /\ ioFile \in CacheFiles
    /\ ioDir \in CacheDirs
    /\ ioOutcome = NoOutcome

CallLoadIndex ==
    /\ ioOutcome' = Outcome("load_index", load_index(ioFile))
    /\ UNCHANGED <<ioFile, ioDir, notCacheIoVars>>

CallLoadTraceCache ==
    /\ ioOutcome' = Outcome("load_trace_cache", load_trace_cache(ioFile))
    /\ UNCHANGED <<ioFile, ioDir, notCacheIoVars>>

CallSaveIndex ==
    /\ ioOutcome' = Outcome("save_index", save_index(ioFile, ioDir))
    /\ ioFile' = Written(ioFile, ioDir)
    /\ UNCHANGED <<ioDir, notCacheIoVars>>

CallSaveTraceCache ==
    /\ ioOutcome' = Outcome("save_trace_cache", save_trace_cache(ioFile, ioDir))
    /\ ioFile' = Written(ioFile, ioDir)
    /\ UNCHANGED <<ioDir, notCacheIoVars>>

CacheIoNext ==
    \/ CallLoadIndex
    \/ CallLoadTraceCache
    \/ CallSaveIndex
    \/ CallSaveTraceCache

\* the cache file cannot be read as a cache record: it is missing,
\* unreadable, truncated or malformed
ReadFailure(file) ==
    file \in {"missing", "unreadable", "empty", "truncated", "not_utf8",
              "json_list", "json_null", "missing_fields"}

\* C21: any failure reading an index or trace cache file (missing,
\* unreadable, truncated, malformed) is reported as a cache miss, and any
\* failure writing one as "not saved"; no error propagates to the caller.
C21_FailuresAreMissesNotErrors ==
    /\ ioOutcome.raised = None
    /\ (ioOutcome.fn = "load_index" /\ ReadFailure(ioOutcome.file))
          => ioOutcome.returned = "None"
    /\ (ioOutcome.fn = "load_trace_cache" /\ ReadFailure(ioOutcome.file) /\ ioOutcome.file # "missing_fields")
          => ioOutcome.returned = "None"
    /\ (ioOutcome.fn \in {"save_index", "save_trace_cache"}
          /\ WriteFails(ioOutcome.file, ioOutcome.dir) # None)
          => ioOutcome.returned = "False"

(***************************************************************************)
(* The specifications                                                      *)
(***************************************************************************)
\* Each specification runs one subsystem; the others stay as constructed.
InitTasks == TaskInit /\ PathIdle /\ CacheIdle /\ TraceIdle /\ SearchIdle /\ SchedIdle /\ IndexIdle /\ RebuildIdle /\ ZstdIdle /\ StoreIdle /\ CacheIoIdle
SpecTasks == InitTasks /\ [][TaskNext]_vars

InitCleanup == CleanupInit /\ PathIdle /\ CacheIdle /\ TraceIdle /\ SearchIdle /\ SchedIdle /\ IndexIdle /\ RebuildIdle /\ ZstdIdle /\ StoreIdle /\ CacheIoIdle
SpecCleanup == InitCleanup /\ [][CleanupNext]_vars

InitPath == PathInit /\ TaskInit /\ CacheIdle /\ TraceIdle /\ SearchIdle /\ SchedIdle /\ IndexIdle /\ RebuildIdle /\ ZstdIdle /\ StoreIdle /\ CacheIoIdle
SpecPath == InitPath /\ [][PathNext]_vars

InitCache == CacheInit /\ TaskInit /\ PathIdle /\ TraceIdle /\ SearchIdle /\ SchedIdle /\ IndexIdle /\ RebuildIdle /\ ZstdIdle /\ StoreIdle /\ CacheIoIdle
SpecCache == InitCache /\ [][CacheNext]_vars

InitTrace == TraceInit /\ TaskInit /\ PathIdle /\ CacheIdle /\ SearchIdle /\ SchedIdle /\ IndexIdle /\ RebuildIdle /\ ZstdIdle /\ StoreIdle /\ CacheIoIdle
SpecTrace == InitTrace /\ [][TraceNext]_vars

InitSearch == SearchInit /\ TaskInit /\ PathIdle /\ CacheIdle /\ TraceIdle /\ SchedIdle /\ IndexIdle /\ RebuildIdle /\ ZstdIdle /\ StoreIdle /\ CacheIoIdle
SpecSearch == InitSearch /\ [][SearchNext]_vars

InitSched == SchedInit /\ TaskInit /\ PathIdle /\ CacheIdle /\ TraceIdle /\ SearchIdle /\ IndexIdle /\ RebuildIdle /\ ZstdIdle /\ StoreIdle /\ CacheIoIdle
SpecSched == InitSched /\ [][SchedNext]_vars

InitIndex == IndexInit /\ TaskInit /\ PathIdle /\ CacheIdle /\ TraceIdle /\ SearchIdle /\ SchedIdle /\ RebuildIdle /\ ZstdIdle /\ StoreIdle /\ CacheIoIdle
SpecIndex == InitIndex /\ [][IndexNext]_vars

InitRebuild == RebuildInit /\ TaskInit /\ PathIdle /\ CacheIdle /\ TraceIdle /\ SearchIdle /\ SchedIdle /\ IndexIdle /\ ZstdIdle /\ StoreIdle /\ CacheIoIdle
SpecRebuild == InitRebuild /\ [][RebuildNext]_vars

InitZstd == ZstdInit /\ TaskInit /\ PathIdle /\ CacheIdle /\ TraceIdle /\ SearchIdle /\ SchedIdle /\ IndexIdle /\ RebuildIdle /\ StoreIdle /\ CacheIoIdle
SpecZstd == InitZstd /\ [][ZstdNext]_vars

InitStore == StoreInit /\ TaskInit /\ PathIdle /\ CacheIdle /\ TraceIdle /\ SearchIdle /\ SchedIdle /\ IndexIdle /\ RebuildIdle /\ ZstdIdle /\ CacheIoIdle
SpecStore == InitStore /\ [][StoreNext]_vars

InitCacheIo == CacheIoInit /\ TaskInit /\ PathIdle /\ CacheIdle /\ TraceIdle /\ SearchIdle /\ SchedIdle /\ IndexIdle /\ RebuildIdle /\ ZstdIdle /\ StoreIdle
SpecCacheIo == InitCacheIo /\ [][CacheIoNext]_vars

=============================================================================
